---- MODULE Spec2Model ----
(***************************************************************************)
(* Layer batching for multi-material G-code: the collision engine          *)
(* (collision_detector.py), the batch scheduler (layer_batcher.py), the    *)
(* parsers (gcode_parser.py, object_segment_parser.py), the line-level     *)
(* batching scripts (batch_layers*.py) and the synthesizers                *)
(* (zhop_manager.py, prime_tower.py).                                      *)
(*                                                                         *)
(* Lengths are integers in micrometres (0.5 mm = 500), those of the        *)
(* synthesizers in 1/100 micrometre.  A Layer object is identified by its  *)
(* position in the input list; a batch holds references to Layer objects,  *)
(* modelled as those positions.                                            *)
(***************************************************************************)
EXTENDS Integers, Sequences, FiniteSets, TLC

VARIABLES
    layers,            \* the parsed layer list handed to the scheduler / engine
    max_batch_layers,  \* LayerBatcher.max_batch_layers
    batches,           \* LayerBatcher.batches
    layer_geometry,    \* CollisionDetector.layer_geometry: layer_number -> cells
    safety_margin,     \* CollisionDetector.safety_margin
    returned,          \* history: the values returned by create_batches so far
    query,             \* the last engine / statistics call and its result
    lines,             \* the lines of the input file
    parser,            \* the fields of a GCodeParser
    out,               \* the data a batching script has produced so far
    manager,           \* a PrimeTowerManager: config.enabled and, per tool, the
                       \* current_layer of its tower
    call               \* a create_batches call followed turn by turn: its
                       \* position and the locals of the interleaved loop

vars == <<layers, max_batch_layers, batches, layer_geometry, safety_margin,
          returned, query, lines, parser, out, manager, call>>

\* the variables of the scheduler and the engine, and those of the text tools
engine_vars == <<layers, max_batch_layers, batches, layer_geometry, safety_margin,
                 returned>>
text_vars == <<lines, parser, out>>
synth_vars == <<manager>>

-----------------------------------------------------------------------------
(* Bounds of the model *)

MaxLayers == 4        \* layers of an input of Spec
MaxCap == 3           \* largest max_batch_layers / max_layers tried
MaxCalls == 2         \* create_batches calls on one batcher
MaxGeoLayers == 4     \* layers of an input of SpecCollision
MaxTail == 2          \* free layers after the alternating prefix (SpecLong)
MaxLongLayers == 20   \* layers of an input of SpecLong
MaxLines == 4         \* lines of an input file
MaxBatchSize == 2     \* largest batch_size of the batching scripts
MaxStripLines == 5    \* lines of an input of SpecStrip
MaxMapLayers == 2     \* layers of an input of SpecMap
MaxMoves == 2         \* moves of a layer of SpecMap
NumTools == 2         \* tools of the PrimeTowerManager of SpecSynth
MaxSyncLayer == 3     \* the greatest layer number of SpecSynth
MaxTravel == 2        \* commands of a travel of SpecSynth
MaxSegmentLines == 5  \* lines of an input of SpecSegment
MaxRunLayers == 4     \* layers of an input of SpecRun
MaxTurns == 5         \* turns of the interleaved loop that SpecRun follows
MaxToolLines == 6     \* lines of an input of SpecTools

-----------------------------------------------------------------------------
(* Program constants *)

None == -1000000           \* Python None in an Optional numeric field
voxel_size == 500          \* CollisionDetector.voxel_size, 0.5 mm
NozzleDiameter == 400      \* nozzle tip diameter 0.4 mm
TanNum == 57735            \* tan(radians(cone_angle / 2)), cone_angle = 60,
TanDen == 100000           \*   as the ratio TanNum / TanDen
AltWindow == 10            \* leading pairs examined by the alternation test
LayerHeight == 200         \* Z step of the generated layers, 0.2 mm
ScenarioLayers == 20       \* layers of the simple-alternation scenario
DefaultCap == 10           \* max_batch_layers when none is configured
DefaultSafetyMargin == 1000  \* safety_margin when none is configured, 1.0 mm

Min2(a, b) == IF a < b THEN a ELSE b

\* int(a / b) of Python for b > 0: truncation toward zero
Trunc(a, b) == IF a >= 0 THEN a \div b ELSE -((-a) \div b)

-----------------------------------------------------------------------------
(* gcode_parser.py: the data the scheduler and the engine read *)

GCodeCommand(x, y, e) == [x |-> x, y |-> y, e |-> e]

Layer(n, z, t, cmds) ==
    [layer_number |-> n, z_height |-> z, tool |-> t, commands |-> cmds]

-----------------------------------------------------------------------------
(* collision_detector.py *)

\* NozzleGeometry.get_radius_at_height
get_radius_at_height(height) ==
    IF height <= 0 THEN NozzleDiameter \div 2
    ELSE (NozzleDiameter \div 2) + (height * TanNum) \div TanDen

\* CollisionDetector._position_to_voxel
position_to_voxel(x, y) == <<Trunc(x, voxel_size), Trunc(y, voxel_size)>>

\* the cell set build_geometry_map computes for one layer
layer_voxels(layer) ==
    { position_to_voxel(layer.commands[k].x, layer.commands[k].y) :
        k \in { j \in 1..Len(layer.commands) :
                  /\ layer.commands[j].x # None
                  /\ layer.commands[j].y # None
                  /\ layer.commands[j].e # None
                  /\ layer.commands[j].e > 0 } }

\* CollisionDetector.build_geometry_map: the map is cleared, then written layer
\* by layer, so the last layer carrying a number owns its entry
build_geometry_map(ls) ==
    [ n \in { ls[i].layer_number : i \in 1..Len(ls) } |->
        LET last == CHOOSE i \in 1..Len(ls) :
                      /\ ls[i].layer_number = n
                      /\ \A j \in 1..Len(ls) : ls[j].layer_number = n => j <= i
        IN  layer_voxels(ls[last]) ]

\* distance = sqrt(dx**2 + dy**2) * voxel_size;  distance <= check_radius
WithinRadius(dx, dy, check_radius) ==
    /\ check_radius >= 0
    /\ (dx * dx + dy * dy) * voxel_size * voxel_size <= check_radius * check_radius

\* mutant: the radius multiplied by the cell size (in mm) instead of divided
check_voxel_radius_m(check_radius) ==
    Trunc(check_radius * voxel_size, 1000 * 1000) + 1

\* check_voxel_radius = int(check_radius / self.voxel_size) + 1
check_voxel_radius(check_radius) == Trunc(check_radius, voxel_size) + 1

\* mutant: a layer without an entry is looked up in its own commands
check_layer_collision_m(printing_layer, existing_layer, check_radius) ==
    \E p \in layer_voxels(printing_layer) : \E q \in layer_voxels(existing_layer) :
        WithinRadius(q[1] - p[1], q[2] - p[2], check_radius)

\* CollisionDetector._check_layer_collision
check_layer_collision(printing_layer, existing_layer, check_radius) ==
    IF printing_layer.layer_number \notin DOMAIN layer_geometry THEN FALSE
    ELSE IF existing_layer.layer_number \notin DOMAIN layer_geometry THEN FALSE
    ELSE
      LET printing_voxels == layer_geometry[printing_layer.layer_number]
          existing_voxels == layer_geometry[existing_layer.layer_number]
          window == (0 - check_voxel_radius(check_radius))..check_voxel_radius(check_radius)
      IN  \E p \in printing_voxels : \E dx \in window : \E dy \in window :
            /\ <<p[1] + dx, p[2] + dy>> \in existing_voxels
            /\ WithinRadius(dx, dy, check_radius)

\* mutant: the upper end of the range included
is_intermediate_m(start_layer, layer, end_layer) ==
    /\ start_layer.layer_number < layer.layer_number
    /\ layer.layer_number <= end_layer.layer_number

\* start_layer.layer_number < layer.layer_number < end_layer.layer_number
is_intermediate(start_layer, layer, end_layer) ==
    /\ start_layer.layer_number < layer.layer_number
    /\ layer.layer_number < end_layer.layer_number

\* the loop of can_batch_layers from position i of all_layers on
RECURSIVE can_batch_scan(_, _, _, _, _)
can_batch_scan(i, start_layer, end_layer, all_layers, check_radius) ==
    IF i > Len(all_layers) THEN TRUE
    ELSE IF /\ is_intermediate(start_layer, all_layers[i], end_layer)
            /\ check_layer_collision(end_layer, all_layers[i], check_radius)
         THEN FALSE
         ELSE can_batch_scan(i + 1, start_layer, end_layer, all_layers, check_radius)

\* the check radius can_batch_layers computes
batch_check_radius(start_layer, end_layer) ==
    get_radius_at_height(end_layer.z_height - start_layer.z_height) + safety_margin

\* CollisionDetector.can_batch_layers
can_batch_layers(start_layer, end_layer, all_layers) ==
    can_batch_scan(1, start_layer, end_layer, all_layers,
                   batch_check_radius(start_layer, end_layer))

\* the for loop of find_maximum_batch_size at step i, batch_size layers accepted;
\* start_idx = start_layer.layer_number - 1 counts from 0, positions here from 1
RECURSIVE find_max_scan(_, _, _, _, _)
find_max_scan(i, batch_size, start_layer, all_layers, max_layers) ==
    LET next_idx == start_layer.layer_number + i
    IN  IF i > max_layers THEN batch_size
        ELSE IF next_idx > Len(all_layers) THEN batch_size
        ELSE IF all_layers[next_idx].tool # start_layer.tool THEN batch_size
        ELSE IF ~can_batch_layers(start_layer, all_layers[next_idx], all_layers)
             THEN batch_size
        ELSE find_max_scan(i + 1, i + 1, start_layer, all_layers, max_layers)

\* CollisionDetector.find_maximum_batch_size
find_maximum_batch_size(start_layer, all_layers, max_layers) ==
    find_max_scan(1, 1, start_layer, all_layers, max_layers)

-----------------------------------------------------------------------------
(* layer_batcher.py *)

LayerBatch(t, ls, members) ==
    [tool |-> t,
     start_layer |-> ls[members[1]].layer_number,
     end_layer |-> ls[members[Len(members)]].layer_number,
     layers |-> members]

\* layer.tool if layer.tool is not None else 0
tool_or_zero(layer) == IF layer.tool = None THEN 0 ELSE layer.tool

batch_tools(ls) == [i \in 1..Len(ls) |-> tool_or_zero(ls[i])]

\* mutant: the comparison of neighbours inverted
is_alternating_m(tools) ==
    \A i \in 1..Min2(AltWindow, Len(tools) - 1) : tools[i] = tools[i + 1]

\* all(tools[i] != tools[i+1] for i in range(min(10, len(tools)-1)))
is_alternating(tools) ==
    \A i \in 1..Min2(AltWindow, Len(tools) - 1) : tools[i] # tools[i + 1]

ToolSet(tools) == { tools[i] : i \in 1..Len(tools) }
SetMin(S) == CHOOSE m \in S : \A x \in S : m <= x
SetMax(S) == CHOOSE m \in S : \A x \in S : m >= x

\* mutant: a layer joins every stream whose tool is not above its own
in_stream_m(tools, i, t) == tools[i] >= t

\* tools[i] == min(tools), tools[i] == max(tools): the stream a layer joins
in_stream(tools, i, t) == tools[i] = t

\* [layers[i] for i in range(len(layers)) if tools[i] == t], as references
RECURSIVE stream_of(_, _, _)
stream_of(tools, t, i) ==
    IF i > Len(tools) THEN <<>>
    ELSE (IF in_stream(tools, i, t) THEN <<i>> ELSE <<>>) \o stream_of(tools, t, i + 1)

\* one round of the while loop of _create_interleaved_object_batches and the
\* rounds after it; idx_0, idx_1 count the layers of each stream already batched
RECURSIVE interleave_rounds(_, _, _, _, _, _, _, _)
interleave_rounds(ls, s0, s1, t0, t1, idx_0, idx_1, acc) ==
    IF ~(idx_0 < Len(s0) \/ idx_1 < Len(s1)) THEN acc
    ELSE
      LET end_0 == Min2(idx_0 + max_batch_layers, Len(s0))
          take_0 == idx_0 < Len(s0) /\ end_0 > idx_0
          acc_0 == IF take_0
                   THEN Append(acc, LayerBatch(t0, ls, SubSeq(s0, idx_0 + 1, end_0)))
                   ELSE acc
          nidx_0 == IF take_0 THEN end_0 ELSE idx_0
          end_1 == Min2(idx_1 + max_batch_layers, Len(s1))
          take_1 == idx_1 < Len(s1) /\ end_1 > idx_1
          acc_1 == IF take_1
                   THEN Append(acc_0, LayerBatch(t1, ls, SubSeq(s1, idx_1 + 1, end_1)))
                   ELSE acc_0
          nidx_1 == IF take_1 THEN end_1 ELSE idx_1
      IN  interleave_rounds(ls, s0, s1, t0, t1, nidx_0, nidx_1, acc_1)

\* LayerBatcher._create_interleaved_object_batches, appending to self.batches
create_interleaved_object_batches(self_batches, ls, tools) ==
    LET tool_0 == SetMin(ToolSet(tools))
        tool_1 == SetMax(ToolSet(tools))
    IN  interleave_rounds(ls, stream_of(tools, tool_0, 1), stream_of(tools, tool_1, 1),
                          tool_0, tool_1, 0, 0, self_batches)

\* the condition of the while loop of _create_interleaved_object_batches
interleave_pending(tools, idx_0, idx_1) ==
    \/ idx_0 < Len(stream_of(tools, SetMin(ToolSet(tools)), 1))
    \/ idx_1 < Len(stream_of(tools, SetMax(ToolSet(tools)), 1))

\* one turn of that loop, for any max_batch_layers: self.batches, idx_0 and
\* idx_1 after it.  A stream's slice is empty when end_idx = idx, and then
\* neither a batch is appended nor the index moved.
interleave_turn(self_batches, ls, tools, idx_0, idx_1) ==
    LET tool_0 == SetMin(ToolSet(tools))
        tool_1 == SetMax(ToolSet(tools))
        tool_0_layers == stream_of(tools, tool_0, 1)
        tool_1_layers == stream_of(tools, tool_1, 1)
        end_0 == Min2(idx_0 + max_batch_layers, Len(tool_0_layers))
        take_0 == idx_0 < Len(tool_0_layers) /\ end_0 > idx_0
        batches_0 == IF take_0
                     THEN Append(self_batches,
                                 LayerBatch(tool_0, ls, SubSeq(tool_0_layers, idx_0 + 1, end_0)))
                     ELSE self_batches
        end_1 == Min2(idx_1 + max_batch_layers, Len(tool_1_layers))
        take_1 == idx_1 < Len(tool_1_layers) /\ end_1 > idx_1
        batches_1 == IF take_1
                     THEN Append(batches_0,
                                 LayerBatch(tool_1, ls, SubSeq(tool_1_layers, idx_1 + 1, end_1)))
                     ELSE batches_0
    IN  [batches |-> batches_1,
         idx_0 |-> IF take_0 THEN end_0 ELSE idx_0,
         idx_1 |-> IF take_1 THEN end_1 ELSE idx_1]

\* mutant: the cap compared with > instead of >=
batch_full_m(cur) == Len(cur) > max_batch_layers

\* len(current_batch_layers) >= self.max_batch_layers
batch_full(cur) == Len(cur) >= max_batch_layers

\* mutant: current_tool kept when a batch has been closed
tool_after_flush_m(cur_tool, layer_tool) == cur_tool

\* current_tool = layer_tool, when a batch has been closed
tool_after_flush(cur_tool, layer_tool) == layer_tool

\* the for loop of _create_sequential_batches from position i on;
\* cur: current_batch_layers, cur_tool: current_tool (None before the first layer)
RECURSIVE sequential_scan(_, _, _, _, _)
sequential_scan(ls, i, cur, cur_tool, acc) ==
    IF i > Len(ls)
    THEN IF cur # <<>> THEN Append(acc, LayerBatch(cur_tool, ls, cur)) ELSE acc
    ELSE
      LET layer_tool == tool_or_zero(ls[i])
          tool_1 == IF cur_tool = None THEN layer_tool ELSE cur_tool
          should_start_new_batch ==
              IF cur_tool = None THEN FALSE
              ELSE IF cur_tool # layer_tool THEN TRUE
              ELSE batch_full(cur)
          flush == should_start_new_batch /\ cur # <<>>
      IN  IF flush
          THEN sequential_scan(ls, i + 1, <<i>>, tool_after_flush(tool_1, layer_tool),
                               Append(acc, LayerBatch(tool_1, ls, cur)))
          ELSE sequential_scan(ls, i + 1, Append(cur, i), tool_1, acc)

\* LayerBatcher._create_sequential_batches, appending to self.batches
create_sequential_batches(self_batches, ls) ==
    sequential_scan(ls, 1, <<>>, None, self_batches)

\* mutant: self.batches kept from the call before
clear_batches_m(self_batches) == self_batches

\* self.batches.clear()
clear_batches(self_batches) == <<>>

\* LayerBatcher.create_batches: the value of self.batches when it returns
create_batches(self_batches, ls) ==
    LET cleared == clear_batches(self_batches)
        tools == batch_tools(ls)
    IN  IF ls = <<>> THEN cleared
        ELSE IF is_alternating(tools) /\ Cardinality(ToolSet(tools)) = 2
             THEN create_interleaved_object_batches(cleared, ls, tools)
             ELSE create_sequential_batches(cleared, ls)

\* sum / max of layer_count() over the batches
RECURSIVE sum_layer_count(_)
sum_layer_count(bs) ==
    IF bs = <<>> THEN 0 ELSE Len(Head(bs).layers) + sum_layer_count(Tail(bs))

max_layer_count(bs) ==
    SetMax({ Len(bs[i].layers) : i \in 1..Len(bs) })

\* LayerBatcher.get_batch_statistics; average_batch_size is the pair
\* <<total_layers, len(self.batches)>> of the quotient
get_batch_statistics(self_batches) ==
    IF self_batches = <<>> THEN [empty |-> TRUE]
    ELSE [empty |-> FALSE,
          total_layers |-> sum_layer_count(self_batches),
          total_batches |-> Len(self_batches),
          tool_changes |-> Len(self_batches) - 1,
          max_batch_size |-> max_layer_count(self_batches),
          batches_per_tool |->
              [t \in { self_batches[i].tool : i \in 1..Len(self_batches) } |->
                  Cardinality({ i \in 1..Len(self_batches) : self_batches[i].tool = t })],
          average_batch_size |->
              <<sum_layer_count(self_batches), Len(self_batches)>>]

-----------------------------------------------------------------------------
(* gcode_parser.py: GCodeParser *)

\* A line of the input file.  eol is the line break readlines() leaves on the
\* line; kind and the fields are what the parser's string tests read off it:
\*   blank    only white space
\*   marker   "; layer num/total_layer_count: n/N"
\*   badmark  the marker text without the two numbers
\*   config   "; layer_change_gcode = ... layer num/total_layer_count: ..."
\*   comment  any other comment line
\*   cmd      a command word with its X, Y, Z and E words (None when absent)
\*            and, on the lines that have one, its F word as field f
BlankLine == [kind |-> "blank", eol |-> TRUE]
MarkerLine(n) == [kind |-> "marker", n |-> n, eol |-> TRUE]
ConfigLine == [kind |-> "config", eol |-> TRUE]
CommentLine(text) == [kind |-> "comment", text |-> text, eol |-> TRUE]
CommandLine(c, x, y, z, e) ==
    [kind |-> "cmd", command |-> c, x |-> x, y |-> y, z |-> z, e |-> e, eol |-> TRUE]

strip(line) == [line EXCEPT !.eol = FALSE]

\* the command words that start with 'T', with int(command[1:])
ToolNumber == [T0 |-> 0, T1 |-> 1, T2 |-> 2, T1000 |-> 1000]

\* GCodeCommand as the parser builds it; raw_line is a text (a stripped line)
\* and comment holds no or one text
ParsedCommand(line_number, raw_line, c, x, y, z, e, f) ==
    [line_number |-> line_number, raw_line |-> raw_line, command |-> c,
     x |-> x, y |-> y, z |-> z, e |-> e, f |-> f, tool |-> None,
     comment |-> <<>>, is_tool_change_sequence |-> FALSE]

ParsedLayer(n, z, t, tcc) ==
    [layer_number |-> n, z_height |-> z, tool |-> t, commands |-> <<>>,
     tool_change_commands |-> tcc]

NewParser ==
    [layers |-> <<>>, current_tool |-> None, pending_tool_change_commands |-> <<>>,
     in_tool_change_sequence |-> FALSE, header_lines |-> <<>>]

\* a line with a command word has no ';' in it and is its own raw_line; a
\* line that starts with ';' is split at it, the text left of it is empty,
\* and the command returned for it has that empty text as raw_line and no
\* comment
_parse_command(line_number, line) ==
    IF line.kind = "cmd"
    THEN ParsedCommand(line_number, line, line.command, line.x, line.y, line.z,
                       line.e, IF "f" \in DOMAIN line THEN line.f ELSE None)
    ELSE ParsedCommand(line_number, strip(BlankLine), "", None, None, None, None, None)

\* the comment test and the '=' test of a layer marker
is_layer_marker_m(line) == line.kind \in {"marker", "badmark", "config"}
is_layer_marker(line) == line.kind \in {"marker", "badmark"}

\* only T0-T9 select a tool
valid_tool_m(tool_num) == 0 <= tool_num
valid_tool(tool_num) == 0 <= tool_num /\ tool_num <= 9

\* cmd.z > (current_z or 0)
raises_z_m(z, current_z) == z # current_z
raises_z(z, current_z) == z > (IF current_z = None THEN 0 ELSE current_z)

\* the marker branch: the open layer is stored and a new one is opened
open_layer(st, line) ==
    IF line.kind # "marker" THEN [st EXCEPT !.in_header = FALSE]
    ELSE [st EXCEPT
            !.in_header = FALSE,
            !.layers = st.layers \o st.current_layer,
            !.current_layer =
                << ParsedLayer(line.n,
                               IF st.current_z # None THEN st.current_z ELSE 0,
                               IF st.current_tool # None THEN st.current_tool ELSE 0,
                               st.pending_tool_change_commands) >>,
            !.pending_tool_change_commands = <<>>,
            !.in_tool_change_sequence = FALSE]

\* a line after the header: tool tracking, sequence capture, Z tracking and the
\* append to the open layer
take_command(st, line_num, line) ==
    LET cmd0 == _parse_command(line_num, line)
        selects == /\ cmd0.command \in DOMAIN ToolNumber
                   /\ valid_tool(ToolNumber[cmd0.command])
        cmd1 == IF selects
                THEN [cmd0 EXCEPT !.tool = ToolNumber[cmd0.command],
                                  !.is_tool_change_sequence = TRUE]
                ELSE cmd0
        in_seq == st.in_tool_change_sequence \/ selects
        cmd == IF in_seq THEN [cmd1 EXCEPT !.is_tool_change_sequence = TRUE] ELSE cmd1
        up == cmd.z # None /\ raises_z(cmd.z, st.current_z)
        z_layer == IF up THEN [k \in 1..Len(st.current_layer) |->
                                  [st.current_layer[k] EXCEPT !.z_height = cmd.z]]
                   ELSE st.current_layer
    IN  [st EXCEPT
            !.current_tool = IF selects THEN ToolNumber[cmd0.command] ELSE @,
            !.in_tool_change_sequence = in_seq,
            !.pending_tool_change_commands = IF in_seq THEN Append(@, cmd) ELSE @,
            !.current_z = IF up THEN cmd.z ELSE @,
            !.current_layer =
                [k \in 1..Len(z_layer) |->
                    [z_layer[k] EXCEPT
                        !.commands = Append(@, cmd),
                        !.tool = IF cmd.tool # None THEN cmd.tool ELSE @]]]

\* one turn of the loop over the lines; line_num counts from 0
parse_line(st, line_num, original_line) ==
    LET line == strip(original_line) IN
    IF line.kind = "blank"
    THEN IF st.in_header
         THEN [st EXCEPT !.header_lines = Append(@, original_line)]
         ELSE st
    ELSE IF is_layer_marker(line) THEN open_layer(st, line)
    ELSE IF st.in_header
         THEN [st EXCEPT !.header_lines = Append(@, original_line)]
         ELSE take_command(st, line_num, line)

RECURSIVE parse_scan(_, _, _)
parse_scan(st, ls, i) ==
    IF i > Len(ls) THEN st
    ELSE parse_scan(parse_line(st, i - 1, ls[i]), ls, i + 1)

\* parse_lines(lines) on a parser in state self: the parser afterwards; the
\* value returned is its layers field.  current_layer holds no or one layer.
parse_lines(self, ls) ==
    LET st0 == [layers |-> self.layers,
                current_tool |-> self.current_tool,
                pending_tool_change_commands |-> self.pending_tool_change_commands,
                in_tool_change_sequence |-> self.in_tool_change_sequence,
                header_lines |-> self.header_lines,
                current_layer |-> <<>>,
                current_z |-> None,
                in_header |-> TRUE]
        st == parse_scan(st0, ls, 1)
    IN  [layers |-> st.layers \o st.current_layer,
         current_tool |-> st.current_tool,
         pending_tool_change_commands |-> st.pending_tool_change_commands,
         in_tool_change_sequence |-> st.in_tool_change_sequence,
         header_lines |-> st.header_lines]

-----------------------------------------------------------------------------
(* object_segment_parser.py: ObjectSegmentParser *)

ObjectLayer(n, t, z, cmds, tcc) ==
    [layer_number |-> n, tool |-> t, z_height |-> z, commands |-> cmds,
     tool_change_commands |-> tcc]

\* the command is a tool select T0..T9
selects_tool(cmd) ==
    cmd.command \in DOMAIN ToolNumber /\ valid_tool(ToolNumber[cmd.command])

\* the tool of the last tool select among cmds, start when there is none
RECURSIVE last_selected(_, _, _)
last_selected(cmds, i, start) ==
    IF i > Len(cmds) THEN start
    ELSE last_selected(cmds, i + 1,
                       IF selects_tool(cmds[i]) THEN ToolNumber[cmds[i].command]
                       ELSE start)

\* one turn of the loop over layer.commands
split_step(layer, st, cmd) ==
    IF selects_tool(cmd)
    THEN LET saved == st.current_commands # <<>> IN
         [segments |-> IF saved
                       THEN Append(st.segments,
                                   ObjectLayer(layer.layer_number, st.current_tool,
                                               layer.z_height, st.current_commands,
                                               st.tool_change_commands))
                       ELSE st.segments,
          current_commands |-> <<>>,
          current_tool |-> ToolNumber[cmd.command],
          tool_change_commands |->
              Append(IF saved THEN <<>> ELSE st.tool_change_commands, cmd),
          in_tool_change |-> TRUE]
    ELSE IF /\ st.in_tool_change
            /\ \/ cmd.is_tool_change_sequence
               \/ cmd.command \in {"M620", "M621", "M104", "M109", "M106"}
    THEN [st EXCEPT !.tool_change_commands = Append(@, cmd),
                    !.in_tool_change = ~(cmd.x # None \/ cmd.y # None)]
    ELSE [st EXCEPT !.in_tool_change = FALSE,
                    !.current_commands = Append(@, cmd)]

RECURSIVE split_scan(_, _, _)
split_scan(layer, st, i) ==
    IF i > Len(layer.commands) THEN st
    ELSE split_scan(layer, split_step(layer, st, layer.commands[i]), i + 1)

_split_layer_by_tool_change(layer) ==
    LET start == last_selected(layer.tool_change_commands, 1, None)
        st0 == [segments |-> <<>>, current_commands |-> <<>>,
                current_tool |-> IF start = None THEN 0 ELSE start,
                tool_change_commands |-> <<>>, in_tool_change |-> FALSE]
        st == split_scan(layer, st0, 1)
        segments == IF st.current_commands # <<>>
                    THEN Append(st.segments,
                                ObjectLayer(layer.layer_number, st.current_tool,
                                            layer.z_height, st.current_commands,
                                            st.tool_change_commands))
                    ELSE st.segments
    IN  IF segments # <<>> THEN segments
        ELSE << ObjectLayer(layer.layer_number, st.current_tool, layer.z_height,
                            layer.commands, layer.tool_change_commands) >>

-----------------------------------------------------------------------------
(* batch_layers_final.py and batch_layers_v2.py *)

\* the object markers "; start printing object, unique label id: <id>" and
\* "; stop printing object, unique label id: <id>"
StartObjectLine(id) == [kind |-> "start", id |-> id, eol |-> TRUE]
StopObjectLine(id) == [kind |-> "stop", id |-> id, eol |-> TRUE]

\* the open marker "M620 S<n>A" and the close marker "M621 S<n>A" of a
\* tool-change block
ToolChangeMark(c, n) ==
    [kind |-> "cmd", command |-> c, s |-> n,
     x |-> None, y |-> None, z |-> None, e |-> None, eol |-> TRUE]

\* lines holds the file lines an object owns, each with its place in the file
PrintObject(layer_num, object_id, tool) ==
    [layer_num |-> layer_num, object_id |-> object_id, tool |-> tool, lines |-> <<>>]

\* the index (from 0) of the first marker of layer 1, 0 when there is none
preamble_end(ls) ==
    LET S == { i \in 1..Len(ls) : ls[i].kind = "marker" /\ ls[i].n = 1 }
    IN  IF S = {} THEN 0 ELSE SetMin(S) - 1

\* one turn of the loop of parse_gcode_objects, on line p of the file;
\* current_object is no or one reference <<layer, index>> to an object, and
\* raised records the KeyError of an object started before any layer
objects_step(st, ls, p) ==
    LET line == ls[p]
        tool_match == line.kind = "cmd" /\ line.command \in {"T0", "T1"}
        in_tool_change == st.in_tool_change \/ tool_match
        here == [src |-> p, text |-> line]
        n == st.current_layer_num
    IN  IF st.raised THEN st
        ELSE IF line.kind = "marker"
        THEN [st EXCEPT
                !.current_layer_num = line.n,
                !.objects_by_layer =
                    [k \in DOMAIN @ \cup {line.n} |->
                        IF k \in DOMAIN @ THEN @[k] ELSE <<>>]]
        ELSE IF in_tool_change
        THEN [st EXCEPT
                !.current_tool = IF tool_match THEN line.command ELSE @,
                !.in_tool_change = ~(line.kind = "cmd" /\ line.command = "M621")]
        ELSE IF line.kind = "start"
        THEN IF n = None THEN [st EXCEPT !.raised = TRUE]
             ELSE [st EXCEPT
                     !.objects_by_layer[n] =
                         Append(@, [PrintObject(n, line.id, st.current_tool)
                                        EXCEPT !.lines = <<here>>]),
                     !.current_object = <<n, Len(st.objects_by_layer[n]) + 1>>,
                     !.in_object = TRUE]
        ELSE IF line.kind = "stop"
        THEN [st EXCEPT
                !.objects_by_layer =
                    IF st.current_object = <<>> THEN @
                    ELSE [@ EXCEPT ![st.current_object[1]][st.current_object[2]].lines =
                                       Append(@, here)],
                !.in_object = FALSE,
                !.current_object = <<>>]
        ELSE IF st.in_object /\ st.current_object # <<>>
        THEN [st EXCEPT !.objects_by_layer[st.current_object[1]][st.current_object[2]].lines =
                            Append(@, here)]
        ELSE st

RECURSIVE objects_scan(_, _, _)
objects_scan(st, ls, p) ==
    IF p > Len(ls) THEN st ELSE objects_scan(objects_step(st, ls, p), ls, p + 1)

parse_gcode_objects(ls) ==
    LET st0 == [objects_by_layer |-> <<>>, current_layer_num |-> None,
                current_object |-> <<>>, current_tool |-> "T0",
                in_object |-> FALSE, in_tool_change |-> FALSE, raised |-> FALSE]
        st == objects_scan(st0, ls, preamble_end(ls) + 1)
    IN  [raised |-> st.raised,
         preamble |-> SubSeq(ls, 1, preamble_end(ls)),
         objects_by_layer |-> st.objects_by_layer]

\* the synthesized block, by the lines the tools look for: the comment, the
\* open marker M620 S<n>A, a travel move, the tool select, the flush region,
\* the retract after it, the close marker M621 S<n>A and the fan command
generate_tool_change(from_tool, to_tool) ==
    LET made(line) == [src |-> 0, text |-> line]
        word(c) == CommandLine(c, None, None, None, None)
        mark(c) == ToolChangeMark(c, IF to_tool = "T0" THEN 0 ELSE 1)
    IN  << made([kind |-> "comment", text |-> "Tool change",
                 from |-> from_tool, to |-> to_tool, eol |-> TRUE]),
           made(mark("M620")),
           made(CommandLine("G1", 70000, None, None, None)),
           made(word(to_tool)),
           made(CommentLine("FLUSH_START")),
           made(CommandLine("G1", None, None, None, 2000)),
           made(CommentLine("FLUSH_END")),
           made(CommandLine("G1", None, None, None, -2000)),
           made(mark("M621")),
           made(word("M106")) >>

\* one turn of the loop of parse_gcode_by_objects, on line p of the file; a
\* layer's dict of objects is the sequence of its values in insertion order
by_objects_step(st, ls, p) ==
    LET line == ls[p]
        tool_match == line.kind = "cmd" /\ line.command \in {"T0", "T1"}
        in_tool_change == st.in_tool_change \/ tool_match
        here == [src |-> p, text |-> line]
        n == st.current_layer_num
        same == IF n = None THEN {}
                ELSE { i \in 1..Len(st.layers_dict[n]) :
                         st.layers_dict[n][i].object_id = line.id }
        at == IF same = {} THEN Len(st.layers_dict[n]) + 1 ELSE SetMin(same)
        object == [PrintObject(n, line.id, st.current_tool)
                      EXCEPT !.lines = Append(st.layer_header_lines, here)]
    IN  IF st.raised THEN st
        ELSE IF line.kind = "marker"
        THEN [st EXCEPT
                !.current_layer_num = line.n,
                !.layers_dict =
                    [k \in DOMAIN @ \cup {line.n} |->
                        IF k \in DOMAIN @ THEN @[k] ELSE <<>>],
                !.layer_header_lines = <<here>>]
        ELSE IF line.kind = "start"
        THEN IF n = None THEN [st EXCEPT !.raised = TRUE]
             ELSE [st EXCEPT
                     !.layers_dict[n] =
                         [i \in 1..(IF at > Len(@) THEN at ELSE Len(@)) |->
                             IF i = at THEN object ELSE @[i]],
                     !.current_object = <<n, at>>,
                     !.layer_header_lines = <<>>]
        ELSE IF line.kind = "stop"
        THEN [st EXCEPT
                !.layers_dict =
                    IF st.current_object = <<>> THEN @
                    ELSE [@ EXCEPT ![st.current_object[1]][st.current_object[2]].lines =
                                       Append(@, here)],
                !.current_object = <<>>]
        ELSE IF in_tool_change
        THEN [st EXCEPT
                !.current_tool = IF tool_match THEN line.command ELSE @,
                !.in_tool_change = ~(line.kind = "cmd" /\ line.command = "M621")]
        ELSE IF st.current_object # <<>>
        THEN [st EXCEPT !.layers_dict[st.current_object[1]][st.current_object[2]].lines =
                            Append(@, here)]
        ELSE IF n # None /\ n # 0
        THEN [st EXCEPT !.layer_header_lines = Append(@, here)]
        ELSE st

RECURSIVE by_objects_scan(_, _, _)
by_objects_scan(st, ls, p) ==
    IF p > Len(ls) THEN st ELSE by_objects_scan(by_objects_step(st, ls, p), ls, p + 1)

parse_gcode_by_objects(ls) ==
    LET st0 == [layers_dict |-> <<>>, current_layer_num |-> None,
                current_object |-> <<>>, current_tool |-> "T0",
                layer_header_lines |-> <<>>, in_tool_change |-> FALSE,
                raised |-> FALSE]
        st == by_objects_scan(st0, ls, preamble_end(ls) + 1)
    IN  [raised |-> st.raised,
         preamble |-> SubSeq(ls, 1, preamble_end(ls)),
         objects_by_layer |-> st.layers_dict]

\* the three lines of the block of batch_layers_v2.py
generate_tool_change_v2(from_tool, to_tool) ==
    << [src |-> 0, text |-> [kind |-> "comment", text |-> "Tool change",
                             from |-> from_tool, to |-> to_tool, eol |-> TRUE]],
       [src |-> 0, text |-> CommandLine(to_tool, None, None, None, None)],
       [src |-> 0, text |-> CommandLine("G1", None, None, None, 2000)] >>

RECURSIVE ConcatAll(_, _)
ConcatAll(ss, i) == IF i > Len(ss) THEN <<>> ELSE ss[i] \o ConcatAll(ss, i + 1)

\* a block is emitted when the group's tool is not the current tool
needs_change_m(current_tool, tool) == TRUE
needs_change(current_tool, tool) == current_tool # tool

\* the loop over the batches and, inside it, over tool_order, of
\* reorganize_by_batches and of reorganize_by_tool_batches (v2): g counts
\* the tool groups from 0, two to a batch
RECURSIVE reorganize_scan(_, _, _, _, _, _)
reorganize_scan(v2, objects_by_layer, batch_size, max_layer, g, current_tool) ==
    LET num_batches == (max_layer + batch_size - 1) \div batch_size
        batch_idx == g \div 2
        start_layer == batch_idx * batch_size + 1
        end_layer == Min2((batch_idx + 1) * batch_size, max_layer)
        tool_order == IF batch_idx % 2 = 0 THEN <<"T0", "T1">> ELSE <<"T1", "T0">>
        tool == tool_order[(g % 2) + 1]
        objects(n) == IF n \in DOMAIN objects_by_layer THEN objects_by_layer[n] ELSE <<>>
        printed ==
            ConcatAll([j \in 1..(end_layer - start_layer + 1) |->
                ConcatAll([i \in 1..Len(objects(start_layer + j - 1)) |->
                    IF objects(start_layer + j - 1)[i].tool = tool
                    THEN objects(start_layer + j - 1)[i].lines ELSE <<>>], 1)], 1)
    IN  IF g >= 2 * num_batches THEN <<>>
        ELSE (IF ~needs_change(current_tool, tool) THEN <<>>
              ELSE IF v2 THEN generate_tool_change_v2(current_tool, tool)
              ELSE generate_tool_change(current_tool, tool))
             \o printed
             \o reorganize_scan(v2, objects_by_layer, batch_size, max_layer, g + 1, tool)

reorganize_by_batches(objects_by_layer, batch_size) ==
    reorganize_scan(FALSE, objects_by_layer, batch_size,
                    SetMax(DOMAIN objects_by_layer), 0, "T0")

reorganize_by_tool_batches(layers_dict, batch_size) ==
    reorganize_scan(TRUE, layers_dict, batch_size, SetMax(DOMAIN layers_dict), 0, "T0")

\* main() of batch_layers_v2.py with the file's lines and batch_size
main_v2(ls, batch_size) ==
    LET parsed == parse_gcode_by_objects(ls)
    IN  IF parsed.raised \/ DOMAIN parsed.objects_by_layer = {} THEN [stage |-> "raised"]
        ELSE [stage |-> "batched_v2",
              batch_size |-> batch_size,
              preamble |-> parsed.preamble,
              objects_by_layer |-> parsed.objects_by_layer,
              body_lines |-> reorganize_by_tool_batches(parsed.objects_by_layer,
                                                        batch_size)]

\* main() with the file's lines and batch_size: what it writes and reports;
\* parse_gcode_objects may raise KeyError and max() of no layers ValueError
main(ls, batch_size) ==
    LET parsed == parse_gcode_objects(ls)
        total_layers == Cardinality(DOMAIN parsed.objects_by_layer)
    IN  IF parsed.raised \/ total_layers = 0 THEN [stage |-> "raised"]
        ELSE [stage |-> "batched",
              batch_size |-> batch_size,
              preamble |-> parsed.preamble,
              objects_by_layer |-> parsed.objects_by_layer,
              body_lines |-> reorganize_by_batches(parsed.objects_by_layer, batch_size),
              original_changes |-> total_layers - 1,
              new_changes |-> (total_layers + batch_size - 1) \div batch_size]

-----------------------------------------------------------------------------
(* batch_layers.py *)

ScriptLayer(layer_num, tool) == [layer_num |-> layer_num, tool |-> tool, lines |-> <<>>]

is_tool_line(line) == line.kind = "cmd" /\ line.command \in {"T0", "T1"}

\* the loop of parse_gcode from line p on; current_layer holds no or one layer
RECURSIVE parse_gcode_scan(_, _, _)
parse_gcode_scan(st, ls, p) ==
    IF p > Len(ls) THEN st
    ELSE LET line == ls[p]
             current_tool == IF is_tool_line(line) THEN line.command ELSE st.current_tool
             opened == IF line.kind = "marker"
                       THEN [st EXCEPT !.layers = @ \o st.current_layer,
                                       !.current_layer = << ScriptLayer(line.n, current_tool) >>]
                       ELSE st
         IN  parse_gcode_scan(
                 [opened EXCEPT
                     !.current_tool = current_tool,
                     !.current_layer =
                         [k \in 1..Len(@) |->
                             [@[k] EXCEPT !.lines = Append(@, [src |-> p, text |-> line])]]],
                 ls, p + 1)

parse_gcode(ls) ==
    LET st == parse_gcode_scan([layers |-> <<>>, current_layer |-> <<>>,
                                current_tool |-> "T0"], ls, preamble_end(ls) + 1)
    IN  [preamble |-> SubSeq(ls, 1, preamble_end(ls)),
         layers |-> st.layers \o st.current_layer]

\* the same-tool branch of update_tool_changes: the lines that are kept
RECURSIVE strip_scan(_, _, _)
strip_scan(layer_lines, i, skip_section) ==
    IF i > Len(layer_lines) THEN <<>>
    ELSE LET line == layer_lines[i].text
             flush(w) == line.kind = "comment" /\ line.text = w
         IN  IF line.kind = "cmd" /\ line.command = "M620"
             THEN strip_scan(layer_lines, i + 1, TRUE)
             ELSE IF is_tool_line(line)
             THEN strip_scan(layer_lines, i + 1, skip_section)
             ELSE IF skip_section /\ line.kind = "cmd" /\ line.command = "M621"
             THEN strip_scan(layer_lines, i + 1, FALSE)
             ELSE IF flush("FLUSH_END")
             THEN strip_scan(layer_lines, i + 1, FALSE)
             ELSE IF skip_section \/ flush("FLUSH_START")
             THEN strip_scan(layer_lines, i + 1, TRUE)
             ELSE <<layer_lines[i]>> \o strip_scan(layer_lines, i + 1, FALSE)

\* update_tool_changes(layers): the layers afterwards
update_tool_changes(ls) ==
    [i \in 1..Len(ls) |->
        LET has_tool_change ==
                \E k \in 1..Len(ls[i].lines) :
                    ls[i].lines[k].text.kind = "cmd" /\ ls[i].lines[k].text.command = "M620"
        IN  IF i = Len(ls) \/ ~has_tool_change THEN ls[i]
            ELSE IF ls[i].tool = ls[i + 1].tool
            THEN [ls[i] EXCEPT !.lines = strip_scan(ls[i].lines, 1, FALSE)]
            ELSE [ls[i] EXCEPT !.lines =
                     [k \in 1..Len(@) |->
                         IF is_tool_line(@[k].text)
                         THEN [src |-> 0,
                               text |-> CommandLine(ls[i + 1].tool, None, None, None, None)]
                         ELSE @[k]]]]

\* main() of batch_layers.py: the preamble and the layers as parsed, and the
\* layers it writes
main_batch_layers(ls) ==
    LET parsed == parse_gcode(ls)
    IN  [stage |-> "updated", preamble |-> parsed.preamble, parsed |-> parsed.layers,
         layers |-> update_tool_changes(parsed.layers)]

-----------------------------------------------------------------------------
(* zhop_manager.py and prime_tower.py *)

\* The numbers of the synthesizers are kept to 1/100 micrometre, finer than
\* the 3 and 4 decimals they are printed with; feedrates are in mm/min.
PerMm == 100000
Kilo == 1000

\* f"{v:.3f}" and f"{v:.4f}": the number the text shows, v rounded to the
\* last printed decimal
round_to(v, step) ==
    IF v >= 0 THEN ((v + step \div 2) \div step) * step
    ELSE 0 - ((((0 - v) + step \div 2) \div step) * step)
format_3f(v) == round_to(v, PerMm \div 1000)
format_4f(v) == round_to(v, PerMm \div 10000)

\* a synthesized raw_line: a command line without line break, with its F word
SynthLine(c, x, y, z, e, f) ==
    [kind |-> "cmd", command |-> c, x |-> x, y |-> y, z |-> z, e |-> e,
     f |-> f, eol |-> FALSE]

\* GCodeCommand(...) as the synthesizers build it
SynthCommand(line_number, raw_line, c, x, y, z, e, f, tool, comment) ==
    [line_number |-> line_number, raw_line |-> raw_line, command |-> c,
     x |-> x, y |-> y, z |-> z, e |-> e, f |-> f, tool |-> tool,
     comment |-> <<comment>>, is_tool_change_sequence |-> FALSE]

\* ZHopConfig: zhop_height, zhop_speed and travel_speed (mm/s), and the
\* feedrates zhop_feedrate() and travel_feedrate()
zhop_height == 50000
zhop_speed == 10
travel_speed == 150
zhop_feedrate == zhop_speed * 60
travel_feedrate == travel_speed * 60

\* mutant: the test for an X or a Y word is left out
is_travel_move_m(cmd) == cmd.command \in {"G0", "G1"}

\* cmd.command in ['G0', 'G1'] and (cmd.x is not None or cmd.y is not None)
is_travel_move(cmd) ==
    /\ cmd.command \in {"G0", "G1"}
    /\ (cmd.x # None \/ cmd.y # None)

\* ZHopManager._add_zhop_sequence; current_pos is unpacked and not used
_add_zhop_sequence(commands, from_z, to_z) ==
    LET zhop_z == from_z + zhop_height
        zhop_up ==
            SynthCommand(0 - 1,
                         SynthLine("G1", None, None, format_3f(zhop_z), None, zhop_feedrate),
                         "G1", None, None, zhop_z, None, zhop_feedrate, None,
                         "Z-hop up for layer travel")
        moves == SelectSeq(commands, is_travel_move)
        travel == [i \in 1..Len(moves) |->
                     SynthCommand(moves[i].line_number, moves[i].raw_line,
                                  moves[i].command, moves[i].x, moves[i].y, None,
                                  None, travel_feedrate, None,
                                  "Travel at Z-hop height")]
        zhop_down ==
            SynthCommand(0 - 1,
                         SynthLine("G1", None, None, format_3f(to_z), None, zhop_feedrate),
                         "G1", None, None, to_z, None, zhop_feedrate, None,
                         "Z-hop down to destination layer")
    IN  <<zhop_up>> \o travel \o <<zhop_down>>

\* ZHopManager.insert_zhop_for_travel of a manager whose config has enabled
insert_zhop_for_travel(enabled, commands, from_z, to_z) ==
    IF ~enabled THEN commands
    ELSE IF to_z < from_z THEN _add_zhop_sequence(commands, from_z, to_z)
    ELSE commands

\* ZHopManager.needs_zhop
needs_zhop(from_layer, to_layer) == to_layer < from_layer

\* PrimeTowerConfig
tower_size == 1000000
tower_spacing == 500000
position_x == 20000000
position_y == 20000000
layer_height == 20000
extrusion_width == 40000

\* f"T{tool_id}"
tool_word(tool_id) == CHOOSE w \in DOMAIN ToolNumber : ToolNumber[w] = tool_id

\* PrimeTowerManager._create_towers: the position of a tool's tower
tower_position(tool_id) ==
    <<position_x + tool_id * (tower_size + tower_spacing), position_y>>

\* e_per_side = side_length * (extrusion_width * layer_height) / 2.4, the
\* factors scaled down before the product to keep it in 32 bits
e_per_side ==
    (((((extrusion_width * layer_height) \div 24) * 10) \div Kilo) * (tower_size \div Kilo))
        \div ((PerMm \div Kilo) * (PerMm \div Kilo))

\* PrimeTower.get_perimeter_commands: z_height is accepted and not used
get_perimeter_commands(tool, z_height) ==
    LET x == tower_position(tool)[1]
        y == tower_position(tool)[2]
        move_cmd ==
            SynthCommand(0 - 1,
                         SynthLine("G1", format_3f(x), format_3f(y), None, None, 3000),
                         "G1", x, y, None, None, 3000, None, "Move to prime tower")
        corners == << <<x + tower_size, y>>, <<x + tower_size, y + tower_size>>,
                      <<x, y + tower_size>>, <<x, y>> >>
        extrude_cmd(c) ==
            SynthCommand(0 - 1,
                         strip(CommandLine("G1", format_3f(c[1]), format_3f(c[2]), None,
                                           format_4f(e_per_side))),
                         "G1", c[1], c[2], None, e_per_side, None, None,
                         "Prime tower perimeter")
    IN  <<move_cmd>> \o [i \in 1..4 |-> extrude_cmd(corners[i])]

\* the tool switch and the retract of synchronize_towers (the comments of the
\* synthesized commands are shortened to their fixed part)
tool_change_command(tool_id) ==
    SynthCommand(0 - 1, strip(CommandLine(tool_word(tool_id), None, None, None, None)),
                 tool_word(tool_id), None, None, None, None, None, tool_id,
                 "Switch tool")
retract_command ==
    SynthCommand(0 - 1, SynthLine("G1", None, None, None, 0 - PerMm, 1800),
                 "G1", None, None, None, 0 - PerMm, 1800, None, "Retract after tower")

\* PrimeTowerManager.__init__: the manager holds config.enabled and towers,
\* which maps each tool to the current_layer of its tower
PrimeTowerManager(enabled, num_tools) ==
    [enabled |-> enabled, towers |-> [tool_id \in 0..(num_tools - 1) |-> 0]]

\* PrimeTowerManager.generate_tower_for_layer: the commands returned and the
\* towers afterwards
generate_tower_for_layer(self, tool, z_height, layer_number) ==
    IF ~self.enabled \/ tool \notin DOMAIN self.towers
    THEN [commands |-> <<>>, towers |-> self.towers]
    ELSE [commands |-> get_perimeter_commands(tool, z_height),
          towers |-> [self.towers EXCEPT ![tool] = layer_number]]

\* the loop over range(layers_behind) from layer_offset on: a tool switch,
\* the tower layer and a retract per turn; layer_num is counted from the
\* tower's current_layer, which generate_tower_for_layer has set in the turn
\* before.  The commands returned and the towers afterwards.
RECURSIVE catch_up(_, _, _, _, _)
catch_up(self, tool_id, layers_behind, layer_offset, z_height) ==
    IF layer_offset >= layers_behind
    THEN [commands |-> <<>>, towers |-> self.towers]
    ELSE LET layer_z == z_height - (layers_behind - layer_offset - 1) * layer_height
             layer_num == self.towers[tool_id] + layer_offset + 1
             made == generate_tower_for_layer(self, tool_id, layer_z, layer_num)
             rest == catch_up([self EXCEPT !.towers = made.towers], tool_id,
                              layers_behind, layer_offset + 1, z_height)
         IN  [commands |-> <<tool_change_command(tool_id)>> \o made.commands
                               \o <<retract_command>> \o rest.commands,
              towers |-> rest.towers]

\* the loop over self.towers from tool_id on, in the order the towers were made
RECURSIVE sync_scan(_, _, _, _, _)
sync_scan(self, tool_id, current_tool, current_layer, z_height) ==
    IF tool_id \notin DOMAIN self.towers
    THEN [commands |-> <<>>, towers |-> self.towers]
    ELSE LET layers_behind == current_layer - self.towers[tool_id]
             here == IF tool_id # current_tool /\ layers_behind > 0
                     THEN catch_up(self, tool_id, layers_behind, 0, z_height)
                     ELSE [commands |-> <<>>, towers |-> self.towers]
             rest == sync_scan([self EXCEPT !.towers = here.towers], tool_id + 1,
                               current_tool, current_layer, z_height)
         IN  [commands |-> here.commands \o rest.commands, towers |-> rest.towers]

\* PrimeTowerManager.synchronize_towers: the commands returned and the towers
\* afterwards
synchronize_towers(self, current_tool, current_layer, z_height) ==
    LET done == sync_scan(self, 0, current_tool, current_layer, z_height)
    IN  [commands |-> IF done.commands # <<>>
                      THEN Append(done.commands, tool_change_command(current_tool))
                      ELSE done.commands,
         towers |-> done.towers]

-----------------------------------------------------------------------------
(* Inputs of the specifications *)

\* Spec: any tool, unset included; a layer is empty or extrudes at one point
Tools == {None, 0, 1, 2}
Extrude(x, y) == <<GCodeCommand(x, y, 500)>>
CommandLists == { <<>>, Extrude(10000, 10000) }

\* SpecCollision: a layer extrudes into cell (20,20) or (23,20), 1.5 mm apart,
\* or not at all; the radii lie below, at and above that distance
GeoTools == {0, 1}
GeoCommandLists == { <<>>, Extrude(10000, 10000), Extrude(11500, 10000) }
Radii == {0, 1200, 1500, 1600}

\* SpecLong: two tools, no geometry
LongTools == {0, 1}

Positions == 1..Len(layers)

\* query records the last read-only call and its result; a call that changes
\* the state resets it, so the record always speaks of the current state
NoQuery == [op |-> "none"]

\* out records what a batching script or a parser call has produced so far
NoOutput == [stage |-> "none"]

\* no PrimeTowerManager was made
NoManager == <<>>

\* no create_batches call is being followed
NoCall == [pc |-> "idle"]

\* the number of leading layers of ls whose tools alternate
AltPrefixLen(ls) ==
    IF ls = <<>> THEN 0
    ELSE SetMax({ k \in 1..Len(ls) : \A i \in 1..(k - 1) : ls[i].tool # ls[i + 1].tool })

NextLayer(t, cmds) ==
    Layer(Len(layers) + 1, (Len(layers) + 1) * LayerHeight, t, cmds)

-----------------------------------------------------------------------------
(* Specification Spec: a layer list is parsed, then scheduled *)

Init ==
    /\ layers = <<>>
    /\ max_batch_layers \in 1..MaxCap
    /\ batches = <<>>
    /\ layer_geometry = <<>>
    /\ safety_margin = DefaultSafetyMargin
    /\ returned = <<>>
    /\ query = NoQuery
    /\ lines = <<>>
    /\ parser = NewParser
    /\ out = NoOutput
    /\ manager = NoManager
    /\ call = NoCall

\* the parser appends the next layer to the list
AddLayer ==
    /\ returned = <<>>
    /\ Len(layers) < MaxLayers
    /\ \E t \in Tools : \E cmds \in CommandLists :
         layers' = Append(layers, NextLayer(t, cmds))
    /\ UNCHANGED <<max_batch_layers, batches, layer_geometry, safety_margin,
                   returned, query>>
    /\ UNCHANGED text_vars
    /\ UNCHANGED synth_vars
    /\ UNCHANGED call

\* batcher.create_batches(layers)
CreateBatches ==
    /\ Len(returned) < MaxCalls
    /\ batches' = create_batches(batches, layers)
    /\ layer_geometry' = IF layers = <<>> THEN layer_geometry
                         ELSE build_geometry_map(layers)
    /\ returned' = Append(returned, batches')
    /\ query' = NoQuery
    /\ UNCHANGED <<layers, max_batch_layers, safety_margin>>
    /\ UNCHANGED text_vars
    /\ UNCHANGED synth_vars
    /\ UNCHANGED call

Next == AddLayer \/ CreateBatches

Spec == Init /\ [][Next]_vars

-----------------------------------------------------------------------------
(* Specification SpecLong: long two-tool inputs, an alternating run followed *)
(* by at most MaxTail further layers, scheduled and summarised              *)

InitLong ==
    /\ layers = <<>>
    /\ max_batch_layers \in (1..MaxCap) \cup {DefaultCap}
    /\ batches = <<>>
    /\ layer_geometry = <<>>
    /\ safety_margin = DefaultSafetyMargin
    /\ returned = <<>>
    /\ query = NoQuery
    /\ lines = <<>>
    /\ parser = NewParser
    /\ out = NoOutput
    /\ manager = NoManager
    /\ call = NoCall

AddLongLayer ==
    /\ returned = <<>>
    /\ query = NoQuery
    /\ Len(layers) < MaxLongLayers
    /\ \E t \in LongTools :
         /\ layers' = Append(layers, NextLayer(t, <<>>))
         /\ Len(layers') - AltPrefixLen(layers') <= MaxTail
    /\ UNCHANGED <<max_batch_layers, batches, layer_geometry, safety_margin,
                   returned, query>>
    /\ UNCHANGED text_vars
    /\ UNCHANGED synth_vars
    /\ UNCHANGED call

\* batcher.get_batch_statistics()
GetBatchStatistics ==
    /\ query = NoQuery
    /\ query' = [op |-> "stats", result |-> get_batch_statistics(batches)]
    /\ UNCHANGED <<layers, max_batch_layers, batches, layer_geometry,
                   safety_margin, returned>>
    /\ UNCHANGED text_vars
    /\ UNCHANGED synth_vars
    /\ UNCHANGED call

NextLong == AddLongLayer \/ CreateBatches \/ GetBatchStatistics

SpecLong == InitLong /\ [][NextLong]_vars

-----------------------------------------------------------------------------
(* Specification SpecRun: a batcher whose max_batch_layers may be 0 is      *)
(* called on a two-tool layer list that grows between the calls; a call on  *)
(* the interleaved path is followed one turn of its while loop at a time,   *)
(* for at most MaxTurns turns, and call.turns counts them                   *)

InitRun ==
    /\ layers = <<>>
    /\ max_batch_layers \in 0..MaxCap
    /\ batches = <<>>
    /\ layer_geometry = <<>>
    /\ safety_margin = DefaultSafetyMargin
    /\ returned = <<>>
    /\ query = NoQuery
    /\ lines = <<>>
    /\ parser = NewParser
    /\ out = NoOutput
    /\ manager = NoManager
    /\ call = NoCall

\* the next layer of the input, while no call is running
AddRunLayer ==
    /\ call.pc # "while"
    /\ Len(layers) < MaxRunLayers
    /\ \E t \in LongTools : layers' = Append(layers, NextLayer(t, <<>>))
    /\ UNCHANGED <<max_batch_layers, batches, layer_geometry, safety_margin,
                   returned, query>>
    /\ UNCHANGED text_vars
    /\ UNCHANGED synth_vars
    /\ UNCHANGED call

\* batcher.create_batches(layers) up to its return or, on the interleaved
\* path, up to the head of the while loop; the for loop of the sequential
\* path runs once over the layers
EnterCreateBatches ==
    /\ call.pc # "while"
    /\ Len(returned) < MaxCalls
    /\ LET tools == batch_tools(layers)
           interleaved == /\ layers # <<>>
                          /\ is_alternating(tools)
                          /\ Cardinality(ToolSet(tools)) = 2
       IN  /\ batches' = IF layers = <<>> \/ interleaved
                         THEN clear_batches(batches)
                         ELSE create_sequential_batches(clear_batches(batches), layers)
           /\ returned' = IF interleaved THEN returned ELSE Append(returned, batches')
           /\ call' = IF interleaved
                      THEN [pc |-> "while", idx_0 |-> 0, idx_1 |-> 0, turns |-> 0]
                      ELSE [pc |-> "returned"]
    /\ layer_geometry' = IF layers = <<>> THEN layer_geometry
                         ELSE build_geometry_map(layers)
    /\ query' = NoQuery
    /\ UNCHANGED <<layers, max_batch_layers, safety_margin>>
    /\ UNCHANGED text_vars
    /\ UNCHANGED synth_vars

\* one turn of the while loop
WhileTurn ==
    /\ call.pc = "while"
    /\ call.turns < MaxTurns
    /\ interleave_pending(batch_tools(layers), call.idx_0, call.idx_1)
    /\ LET done == interleave_turn(batches, layers, batch_tools(layers),
                                   call.idx_0, call.idx_1)
       IN  /\ batches' = done.batches
           /\ call' = [call EXCEPT !.idx_0 = done.idx_0, !.idx_1 = done.idx_1,
                                   !.turns = @ + 1]
    /\ UNCHANGED <<layers, max_batch_layers, layer_geometry, safety_margin,
                   returned, query>>
    /\ UNCHANGED text_vars
    /\ UNCHANGED synth_vars

\* the while loop ends and self.batches is returned
WhileExit ==
    /\ call.pc = "while"
    /\ ~interleave_pending(batch_tools(layers), call.idx_0, call.idx_1)
    /\ returned' = Append(returned, batches)
    /\ call' = [pc |-> "returned"]
    /\ UNCHANGED <<layers, max_batch_layers, batches, layer_geometry, safety_margin,
                   query>>
    /\ UNCHANGED text_vars
    /\ UNCHANGED synth_vars

NextRun == AddRunLayer \/ EnterCreateBatches \/ WhileTurn \/ WhileExit

SpecRun == InitRun /\ [][NextRun]_vars

-----------------------------------------------------------------------------
(* Specification SpecCollision: the collision engine queried on a layer list *)

InitCollision ==
    /\ layers = <<>>
    /\ max_batch_layers = DefaultCap
    /\ batches = <<>>
    /\ layer_geometry = <<>>
    /\ safety_margin = DefaultSafetyMargin
    /\ returned = <<>>
    /\ query = NoQuery
    /\ lines = <<>>
    /\ parser = NewParser
    /\ out = NoOutput
    /\ manager = NoManager
    /\ call = NoCall

\* layers are appended before the map is built, and one more layer may be
\* appended after it: the map has no entry for that layer until
\* build_geometry_map is called again
AddGeoLayer ==
    /\ \/ layer_geometry = <<>>
       \/ Cardinality(DOMAIN layer_geometry) = Len(layers)
    /\ query = NoQuery
    /\ Len(layers) < MaxGeoLayers
    /\ \E t \in GeoTools : \E cmds \in GeoCommandLists :
         layers' = Append(layers, NextLayer(t, cmds))
    /\ UNCHANGED <<max_batch_layers, batches, layer_geometry, safety_margin,
                   returned, query>>
    /\ UNCHANGED text_vars
    /\ UNCHANGED synth_vars
    /\ UNCHANGED call

\* detector.build_geometry_map(layers)
BuildGeometryMap ==
    /\ layer_geometry' = build_geometry_map(layers)
    /\ query' = NoQuery
    /\ UNCHANGED <<layers, max_batch_layers, batches, safety_margin, returned>>
    /\ UNCHANGED text_vars
    /\ UNCHANGED synth_vars
    /\ UNCHANGED call

\* detector.can_batch_layers(layers[a], layers[b], layers)
CanBatchLayers ==
    /\ query = NoQuery
    /\ \E a \in Positions : \E b \in Positions :
         query' = [op |-> "can_batch_layers", a |-> a, b |-> b,
                   result |-> can_batch_layers(layers[a], layers[b], layers)]
    /\ UNCHANGED <<layers, max_batch_layers, batches, layer_geometry,
                   safety_margin, returned>>
    /\ UNCHANGED text_vars
    /\ UNCHANGED synth_vars
    /\ UNCHANGED call

\* detector._check_layer_collision(layers[p], layers[e], r)
CheckLayerCollision ==
    /\ query = NoQuery
    /\ \E p \in Positions : \E e \in Positions : \E r \in Radii :
         query' = [op |-> "check_layer_collision", p |-> p, e |-> e, r |-> r,
                   result |-> check_layer_collision(layers[p], layers[e], r)]
    /\ UNCHANGED <<layers, max_batch_layers, batches, layer_geometry,
                   safety_margin, returned>>
    /\ UNCHANGED text_vars
    /\ UNCHANGED synth_vars
    /\ UNCHANGED call

\* detector.find_maximum_batch_size(layers[s], layers, m)
FindMaximumBatchSize ==
    /\ query = NoQuery
    /\ \E st \in Positions : \E m \in 1..MaxCap :
         query' = [op |-> "find_maximum_batch_size", start |-> st, max_layers |-> m,
                   result |-> find_maximum_batch_size(layers[st], layers, m)]
    /\ UNCHANGED <<layers, max_batch_layers, batches, layer_geometry,
                   safety_margin, returned>>
    /\ UNCHANGED text_vars
    /\ UNCHANGED synth_vars
    /\ UNCHANGED call

NextCollision ==
    \/ AddGeoLayer
    \/ BuildGeometryMap
    \/ CanBatchLayers
    \/ CheckLayerCollision
    \/ FindMaximumBatchSize

SpecCollision == InitCollision /\ [][NextCollision]_vars

-----------------------------------------------------------------------------
(* Specification SpecParse: a file of at most MaxLines lines is read and    *)
(* parsed by a new GCodeParser, once or twice                               *)

\* blank and config lines, two layer markers, two Z moves, an extruding move,
\* three tool selects and the close of a tool-change block
ParserLines ==
    { BlankLine, ConfigLine, MarkerLine(1), MarkerLine(2),
      CommandLine("G1", None, None, 200, None),
      CommandLine("G1", None, None, 400, None),
      CommandLine("G1", 10000, 10000, None, 500),
      CommandLine("T0", None, None, None, None),
      CommandLine("T1", None, None, None, None),
      CommandLine("T1000", None, None, None, None),
      ToolChangeMark("M621", 1) }

InitParse ==
    /\ layers = <<>>
    /\ max_batch_layers = DefaultCap
    /\ batches = <<>>
    /\ layer_geometry = <<>>
    /\ safety_margin = DefaultSafetyMargin
    /\ returned = <<>>
    /\ query = NoQuery
    /\ lines = <<>>
    /\ parser = NewParser
    /\ out = NoOutput
    /\ manager = NoManager
    /\ call = NoCall

\* the next line of the file
ReadLine ==
    /\ out = NoOutput
    /\ Len(lines) < MaxLines
    /\ \E line \in ParserLines : lines' = Append(lines, line)
    /\ UNCHANGED <<parser, out, query>>
    /\ UNCHANGED engine_vars
    /\ UNCHANGED synth_vars
    /\ UNCHANGED call

\* parser.parse_lines(lines)
ParseLines ==
    /\ out = NoOutput
    /\ parser' = parse_lines(parser, lines)
    /\ out' = [stage |-> "parsed", returned |-> parser'.layers]
    /\ UNCHANGED <<lines, query>>
    /\ UNCHANGED engine_vars
    /\ UNCHANGED synth_vars
    /\ UNCHANGED call

\* a second parser.parse_lines(lines) on the same parser, with the same lines;
\* first is the parser as the first call left it
ParseLinesAgain ==
    /\ out.stage = "parsed"
    /\ query = NoQuery
    /\ parser' = parse_lines(parser, lines)
    /\ out' = [stage |-> "parsed_again", returned |-> parser'.layers, first |-> parser]
    /\ UNCHANGED <<lines, query>>
    /\ UNCHANGED engine_vars
    /\ UNCHANGED synth_vars
    /\ UNCHANGED call

\* self._split_layer_by_tool_change(layer) for a layer the parser returned
SplitLayer ==
    /\ out.stage = "parsed"
    /\ query = NoQuery
    /\ \E k \in 1..Len(out.returned) :
         query' = [op |-> "split", layer |-> k,
                   segments |-> _split_layer_by_tool_change(out.returned[k])]
    /\ UNCHANGED <<lines, parser, out>>
    /\ UNCHANGED engine_vars
    /\ UNCHANGED synth_vars
    /\ UNCHANGED call

NextParse == ReadLine \/ ParseLines \/ ParseLinesAgain \/ SplitLayer

SpecParse == InitParse /\ [][NextParse]_vars

-----------------------------------------------------------------------------
(* Specification SpecSegment: a file of at most MaxSegmentLines lines, with *)
(* up to three layers, is parsed by a new GCodeParser and its layers are    *)
(* split into segments                                                     *)

\* three layer markers, two tool selects and an extruding move
SegmentLines ==
    { MarkerLine(1), MarkerLine(2), MarkerLine(3),
      CommandLine("T0", None, None, None, None),
      CommandLine("T1", None, None, None, None),
      CommandLine("G1", 10000, 10000, None, 500) }

\* the next line of the file
ReadSegmentLine ==
    /\ out = NoOutput
    /\ Len(lines) < MaxSegmentLines
    /\ \E line \in SegmentLines : lines' = Append(lines, line)
    /\ UNCHANGED <<parser, out, query>>
    /\ UNCHANGED engine_vars
    /\ UNCHANGED synth_vars
    /\ UNCHANGED call

NextSegment == ReadSegmentLine \/ ParseLines \/ SplitLayer

SpecSegment == InitParse /\ [][NextSegment]_vars

-----------------------------------------------------------------------------
(* Properties of the batch scheduler, checked under Spec *)

\* create_batches has returned for the current layer list
Returned == returned # <<>>

BatchIds == 1..Len(batches)
Members(b) == batches[b].layers
Slots == UNION { { <<b, k>> : k \in 1..Len(Members(b)) } : b \in BatchIds }
Interleaved ==
    /\ is_alternating(batch_tools(layers))
    /\ Cardinality(ToolSet(batch_tools(layers))) = 2

\* C1: the returned batches are an exact partition of a non-empty input: every
\* input layer fills exactly one slot of one batch, no batch holds anything
\* else, and inside a batch the layers keep their input order.
C1_ExactPartition ==
    (Returned /\ layers # <<>>) =>
        /\ \A i \in Positions :
              Cardinality({ sl \in Slots : Members(sl[1])[sl[2]] = i }) = 1
        /\ \A sl \in Slots : Members(sl[1])[sl[2]] \in Positions
        /\ \A b \in BatchIds : \A k \in 1..(Len(Members(b)) - 1) :
              Members(b)[k] < Members(b)[k + 1]

\* C1 witness: an interleaved schedule that reorders the input (layers 1 and 3
\* share a batch) and has more than one batch
C1_Witness ==
    /\ Returned
    /\ Interleaved
    /\ Len(batches) >= 2
    /\ \E b \in BatchIds : Len(Members(b)) >= 2 /\ Members(b)[1] = 1 /\ Members(b)[2] = 3

\* C2 (as claimed): in every returned batch each member other than the first
\* passes can_batch_layers against the member right before it.
C2_NoUnsafeBatch ==
    Returned =>
        \A b \in BatchIds : \A k \in 2..Len(Members(b)) :
            can_batch_layers(layers[Members(b)[k - 1]], layers[Members(b)[k]], layers)

\* the tool a layer counts as: an unset tool is tool 0
CountedTool(layer) == IF layer.tool = None THEN 0 ELSE layer.tool

\* C3: every member of a returned batch has the batch's tool, an unset tool
\* counted as tool 0.
C3_ToolHomogeneous ==
    Returned =>
        \A b \in BatchIds : \A k \in 1..Len(Members(b)) :
            CountedTool(layers[Members(b)[k]]) = batches[b].tool

\* C3 witness: a sequential schedule with a tool change between two batches,
\* the later batch holding a layer whose tool is unset
C3_Witness ==
    /\ Returned
    /\ ~Interleaved
    /\ \E b \in BatchIds :
         /\ b > 1
         /\ batches[b - 1].tool # batches[b].tool
         /\ \E k \in 1..Len(Members(b)) : layers[Members(b)[k]].tool = None

\* C4: no returned batch holds more than max_batch_layers layers.
C4_CapRespected ==
    Returned => \A b \in BatchIds : Len(Members(b)) <= max_batch_layers

\* C4 witness: the cap closed a batch: a full batch is followed by a batch of
\* the same tool, in a sequential schedule
C4_Witness ==
    /\ Returned
    /\ ~Interleaved
    /\ \E b \in BatchIds :
         /\ b < Len(batches)
         /\ Len(Members(b)) = max_batch_layers
         /\ batches[b + 1].tool = batches[b].tool

\* C7: every create_batches call on the same layer list with the same cap
\* returns the same batch list (tool, start_layer, end_layer, members).
C7_Idempotent ==
    \A i \in DOMAIN returned : \A j \in DOMAIN returned : returned[i] = returned[j]

\* C7 witness: the batcher was run twice on an input that yields several batches
C7_Witness ==
    /\ Len(returned) >= 2
    /\ Len(returned[1]) >= 2
    /\ returned[2] = returned[1]

-----------------------------------------------------------------------------
(* Properties of the schedule's tool changes, checked under SpecLong *)

\* consecutive input layers whose tools differ
InputToolChanges ==
    Cardinality({ i \in 1..(Len(layers) - 1) : layers[i].tool # layers[i + 1].tool })

\* consecutive batches whose tools differ
OutputToolChanges ==
    Cardinality({ b \in 1..(Len(batches) - 1) : batches[b].tool # batches[b + 1].tool })

\* C5 (as claimed): for an input with at least one tool change the schedule has
\* no more tool changes than the input.
C5_ToolChangeMonotone ==
    (Returned /\ InputToolChanges >= 1) => OutputToolChanges <= InputToolChanges

\* the scenario of C6: 20 layers, the tool alternating on every layer, cap 10,
\* scheduled
AlternationScenario ==
    /\ Returned
    /\ Len(layers) = ScenarioLayers
    /\ AltPrefixLen(layers) = ScenarioLayers
    /\ max_batch_layers = DefaultCap

\* C6 (amended): in the scenario the schedule has exactly 2 batches and 1 tool
\* change, counted between batches and reported by get_batch_statistics, down
\* from 19 in the input.
C6_AlternationOneChange ==
    AlternationScenario =>
        /\ InputToolChanges = 19
        /\ Len(batches) = 2
        /\ OutputToolChanges = 1
        /\ query.op = "stats" => query.result.tool_changes = 1

\* C6 witness: the scenario with the statistics read
C6_Witness ==
    /\ AlternationScenario
    /\ query.op = "stats"
    /\ query.result.tool_changes = 1

\* C6 (as claimed): in the scenario the schedule has exactly 2 tool changes,
\* counted between batches and reported by get_batch_statistics.
C6_AlternationTwoChanges ==
    AlternationScenario =>
        /\ InputToolChanges = 19
        /\ OutputToolChanges = 2
        /\ query.op = "stats" => query.result.tool_changes = 2

-----------------------------------------------------------------------------
(* Properties of the collision engine, checked under SpecCollision *)

\* the occupied cells of a layer in the geometry index
Occupied(layer) ==
    IF layer.layer_number \in DOMAIN layer_geometry
    THEN layer_geometry[layer.layer_number] ELSE {}

\* sqrt(dx^2 + dy^2) * voxel_size <= r for the cells p and q
EuclidWithin(p, q, r) ==
    /\ r >= 0
    /\ ((q[1] - p[1]) * (q[1] - p[1]) + (q[2] - p[2]) * (q[2] - p[2]))
         * voxel_size * voxel_size <= r * r

\* layer L lies strictly between A and B by layer number
StrictlyBetween(A, L, B) ==
    A.layer_number < L.layer_number /\ L.layer_number < B.layer_number

\* C8: can_batch_layers(A, B, all_layers) is false exactly when some layer of
\* all_layers strictly between A and B collides with B per
\* _check_layer_collision (at the radius of the call); so it is true when no
\* layer lies strictly between them.
C8_CanBatchIffNoIntermediateCollision ==
    query.op = "can_batch_layers" =>
        LET A == layers[query.a]
            B == layers[query.b]
        IN  (query.result = FALSE) <=>
              \E i \in Positions :
                /\ StrictlyBetween(A, layers[i], B)
                /\ check_layer_collision(B, layers[i], batch_check_radius(A, B))

\* C8 witness: A and B are three layers apart, the first layer between them is
\* clear of B and the second one collides with it, and the call returned false
C8_Witness ==
    /\ query.op = "can_batch_layers"
    /\ query.result = FALSE
    /\ query.b = query.a + 3
    /\ LET A == layers[query.a]
           B == layers[query.b]
       IN  /\ ~check_layer_collision(B, layers[query.a + 1], batch_check_radius(A, B))
           /\ check_layer_collision(B, layers[query.a + 2], batch_check_radius(A, B))

\* C9: _check_layer_collision(P, E, r) is true exactly when an occupied cell of
\* P and an occupied cell of E lie within r of each other by the Euclidean
\* cell distance: the search window hides no such pair and reports no other.
C9_CollisionIffEuclidean ==
    query.op = "check_layer_collision" =>
        (query.result <=>
            \E p \in Occupied(layers[query.p]) : \E q \in Occupied(layers[query.e]) :
                EuclidWithin(p, q, query.r))

\* C9 witness: two layers occupying different cells exactly r apart collide
C9_Witness ==
    /\ query.op = "check_layer_collision"
    /\ query.result = TRUE
    /\ \E p \in Occupied(layers[query.p]) : \E q \in Occupied(layers[query.e]) :
         /\ p # q
         /\ EuclidWithin(p, q, query.r)
         /\ ~EuclidWithin(p, q, query.r - 1)

\* C10 (as claimed): find_maximum_batch_size returns a size between 1 and
\* max_layers inclusive.
C10_SizeWithinCap ==
    query.op = "find_maximum_batch_size" =>
        /\ 1 <= query.result
        /\ query.result <= query.max_layers

-----------------------------------------------------------------------------
(* Specification SpecBatch: a file of at most MaxLines lines is read and    *)
(* main() of batch_layers_final.py or of batch_layers_v2.py reorganizes it  *)

\* the markers of three layers, three tool selects, the close of a
\* tool-change block, the markers of one object and a move
BatchLines ==
    { MarkerLine(1), MarkerLine(2), MarkerLine(3),
      CommandLine("T1", None, None, None, None),
      CommandLine("T2", None, None, None, None),
      ToolChangeMark("M621", 1),
      StartObjectLine(7), StopObjectLine(7),
      CommandLine("G1", 10000, 10000, None, 500) }

BatchSizes == 1..MaxBatchSize

InitBatch ==
    /\ layers = <<>>
    /\ max_batch_layers = DefaultCap
    /\ batches = <<>>
    /\ layer_geometry = <<>>
    /\ safety_margin = DefaultSafetyMargin
    /\ returned = <<>>
    /\ query = NoQuery
    /\ lines = <<>>
    /\ parser = NewParser
    /\ out = NoOutput
    /\ manager = NoManager
    /\ call = NoCall

\* the next line of input.gcode
ReadBatchLine ==
    /\ out = NoOutput
    /\ Len(lines) < MaxLines
    /\ \E line \in BatchLines : lines' = Append(lines, line)
    /\ UNCHANGED <<parser, out, query>>
    /\ UNCHANGED engine_vars
    /\ UNCHANGED synth_vars
    /\ UNCHANGED call

\* main()
Main ==
    /\ out = NoOutput
    /\ \E batch_size \in BatchSizes : out' = main(lines, batch_size)
    /\ UNCHANGED <<lines, parser, query>>
    /\ UNCHANGED engine_vars
    /\ UNCHANGED synth_vars
    /\ UNCHANGED call

\* main() of batch_layers_v2.py
MainV2 ==
    /\ out = NoOutput
    /\ \E batch_size \in BatchSizes : out' = main_v2(lines, batch_size)
    /\ UNCHANGED <<lines, parser, query>>
    /\ UNCHANGED engine_vars
    /\ UNCHANGED synth_vars
    /\ UNCHANGED call

NextBatch == ReadBatchLine \/ Main \/ MainV2

SpecBatch == InitBatch /\ [][NextBatch]_vars

-----------------------------------------------------------------------------
(* Specification SpecStrip: a file of at most MaxStripLines lines is read   *)
(* and main() of batch_layers.py updates its tool changes                   *)

\* the marker of the next layer, the lines of a tool-change block and a move
StripLines ==
    { MarkerLine(Cardinality({ i \in 1..Len(lines) : lines[i].kind = "marker" }) + 1),
      ToolChangeMark("M620", 1),
      CommandLine("T1", None, None, None, None),
      CommentLine("FLUSH_START"), CommentLine("FLUSH_END"),
      ToolChangeMark("M621", 1),
      CommandLine("G1", 10000, 10000, None, 500) }

InitStrip ==
    /\ layers = <<>>
    /\ max_batch_layers = DefaultCap
    /\ batches = <<>>
    /\ layer_geometry = <<>>
    /\ safety_margin = DefaultSafetyMargin
    /\ returned = <<>>
    /\ query = NoQuery
    /\ lines = <<>>
    /\ parser = NewParser
    /\ out = NoOutput
    /\ manager = NoManager
    /\ call = NoCall

\* the next line of input.gcode
ReadStripLine ==
    /\ out = NoOutput
    /\ Len(lines) < MaxStripLines
    /\ \E line \in StripLines : lines' = Append(lines, line)
    /\ UNCHANGED <<parser, out, query>>
    /\ UNCHANGED engine_vars
    /\ UNCHANGED synth_vars
    /\ UNCHANGED call

\* main() of batch_layers.py
MainBatchLayers ==
    /\ out = NoOutput
    /\ out' = main_batch_layers(lines)
    /\ UNCHANGED <<lines, parser, query>>
    /\ UNCHANGED engine_vars
    /\ UNCHANGED synth_vars
    /\ UNCHANGED call

NextStrip == ReadStripLine \/ MainBatchLayers

SpecStrip == InitStrip /\ [][NextStrip]_vars

-----------------------------------------------------------------------------
(* Specification SpecTools: a file of at most MaxToolLines lines whose       *)
(* layers may select a tool more than once is read and main() of            *)
(* batch_layers.py updates its tool changes                                 *)

\* the marker of the next layer, the open marker of a tool-change block, the
\* two tool selects and a move
ToolLines ==
    { MarkerLine(Cardinality({ i \in 1..Len(lines) : lines[i].kind = "marker" }) + 1),
      ToolChangeMark("M620", 1),
      CommandLine("T0", None, None, None, None),
      CommandLine("T1", None, None, None, None),
      CommandLine("G1", 10000, 10000, None, 500) }

\* the next line of input.gcode
ReadToolLine ==
    /\ out = NoOutput
    /\ Len(lines) < MaxToolLines
    /\ \E line \in ToolLines : lines' = Append(lines, line)
    /\ UNCHANGED <<parser, out, query>>
    /\ UNCHANGED engine_vars
    /\ UNCHANGED synth_vars
    /\ UNCHANGED call

NextTools == ReadToolLine \/ MainBatchLayers

SpecTools == InitStrip /\ [][NextTools]_vars

-----------------------------------------------------------------------------
(* Specification SpecMap: layers of at most MaxMoves moves are indexed by   *)
(* build_geometry_map                                                       *)

\* an extruding move to (10.0, 10.0), extruding moves that address X only and
\* Y only, a travel and a retraction (E is relative)
MapMoves ==
    { GCodeCommand(10000, 10000, 500),
      GCodeCommand(11500, None, 500),
      GCodeCommand(None, 11000, 500),
      GCodeCommand(12500, 10000, None),
      GCodeCommand(12500, 12000, 0 - 500) }

InitMap ==
    /\ layers = <<>>
    /\ max_batch_layers = DefaultCap
    /\ batches = <<>>
    /\ layer_geometry = <<>>
    /\ safety_margin = DefaultSafetyMargin
    /\ returned = <<>>
    /\ query = NoQuery
    /\ lines = <<>>
    /\ parser = NewParser
    /\ out = NoOutput
    /\ manager = NoManager
    /\ call = NoCall

\* a layer marker: the next layer is opened
AddMapLayer ==
    /\ layer_geometry = <<>>
    /\ Len(layers) < MaxMapLayers
    /\ layers' = Append(layers, NextLayer(0, <<>>))
    /\ UNCHANGED <<max_batch_layers, batches, layer_geometry, safety_margin,
                   returned, query>>
    /\ UNCHANGED text_vars
    /\ UNCHANGED synth_vars
    /\ UNCHANGED call

\* a move of the open layer
AddMove ==
    /\ layer_geometry = <<>>
    /\ layers # <<>>
    /\ Len(layers[Len(layers)].commands) < MaxMoves
    /\ \E cmd \in MapMoves :
         layers' = [layers EXCEPT ![Len(layers)].commands = Append(@, cmd)]
    /\ UNCHANGED <<max_batch_layers, batches, layer_geometry, safety_margin,
                   returned, query>>
    /\ UNCHANGED text_vars
    /\ UNCHANGED synth_vars
    /\ UNCHANGED call

NextMap == AddMapLayer \/ AddMove \/ BuildGeometryMap

SpecMap == InitMap /\ [][NextMap]_vars

-----------------------------------------------------------------------------
(* Specification SpecSynth: a PrimeTowerManager for NumTools tools is driven *)
(* through layers 0..MaxSyncLayer, and a ZHopManager is asked about travels *)
(* of at most MaxTravel commands.  The two managers share no state: the     *)
(* ZHopManager is asked before the first call on the PrimeTowerManager,     *)
(* whose calls leave their return value in query                            *)

\* the lines a travel is parsed from: "G1 X10 Y10", "G1 X12 Z0.6 E0.5 F1200",
\* "G1 Z0.6" and "M106"
TravelLines ==
    { strip(CommandLine("G1", 1000000, 1000000, None, None)),
      SynthLine("G1", 1200000, None, 60000, 50000, 1200),
      strip(CommandLine("G1", None, None, 60000, None)),
      strip(CommandLine("M106", None, None, None, None)) }

\* the commands the parser makes of the lines of a travel
TravelCommands(texts) == [i \in 1..Len(texts) |-> _parse_command(i - 1, texts[i])]

\* the Z of layers 3 and 8, and a height between the printed decimals
ZHeights == { 3 * layer_height, 8 * layer_height, 5 * layer_height + 4 }

InitSynth ==
    /\ layers = <<>>
    /\ max_batch_layers = DefaultCap
    /\ batches = <<>>
    /\ layer_geometry = <<>>
    /\ safety_margin = DefaultSafetyMargin
    /\ returned = <<>>
    /\ query = NoQuery
    /\ lines = <<>>
    /\ parser = NewParser
    /\ out = NoOutput
    /\ \E enabled \in BOOLEAN : manager = PrimeTowerManager(enabled, NumTools)
    /\ call = NoCall

\* manager.generate_tower_for_layer(tool, z, layer_number); NumTools is a tool
\* without a tower
GenerateTowerForLayer ==
    /\ \E tool \in 0..NumTools : \E layer_number \in 0..MaxSyncLayer :
         LET z_height == layer_number * layer_height
             done == generate_tower_for_layer(manager, tool, z_height, layer_number)
         IN  /\ manager' = [manager EXCEPT !.towers = done.towers]
             /\ query' = [op |-> "generate_tower_for_layer", tool |-> tool,
                          layer_number |-> layer_number, z_height |-> z_height,
                          result |-> done.commands]
    /\ UNCHANGED engine_vars
    /\ UNCHANGED text_vars
    /\ UNCHANGED call

\* manager.synchronize_towers(current_tool, current_layer, z)
SynchronizeTowers ==
    /\ \E current_tool \in DOMAIN manager.towers : \E current_layer \in 0..MaxSyncLayer :
         LET z_height == current_layer * layer_height
             done == synchronize_towers(manager, current_tool, current_layer, z_height)
         IN  /\ manager' = [manager EXCEPT !.towers = done.towers]
             /\ query' = [op |-> "synchronize_towers", current_tool |-> current_tool,
                          current_layer |-> current_layer, z_height |-> z_height,
                          before |-> manager.towers, result |-> done.commands]
    /\ UNCHANGED engine_vars
    /\ UNCHANGED text_vars
    /\ UNCHANGED call

\* ZHopManager(ZHopConfig(enabled=enabled)).insert_zhop_for_travel(commands,
\* from_z, to_z, current_pos)
InsertZhopForTravel ==
    /\ query = NoQuery
    /\ \E enabled \in BOOLEAN : \E n \in 0..MaxTravel : \E texts \in [1..n -> TravelLines] :
       \E from_z \in ZHeights : \E to_z \in ZHeights :
         query' = [op |-> "insert_zhop_for_travel", enabled |-> enabled,
                   commands |-> TravelCommands(texts), from_z |-> from_z, to_z |-> to_z,
                   result |-> insert_zhop_for_travel(enabled, TravelCommands(texts),
                                                     from_z, to_z)]
    /\ UNCHANGED engine_vars
    /\ UNCHANGED text_vars
    /\ UNCHANGED synth_vars
    /\ UNCHANGED call

\* zhop_manager.needs_zhop(from_layer, to_layer)
NeedsZhop ==
    /\ query = NoQuery
    /\ \E from_layer \in {3, 8} : \E to_layer \in {3, 8} :
         query' = [op |-> "needs_zhop", from_layer |-> from_layer, to_layer |-> to_layer,
                   result |-> needs_zhop(from_layer, to_layer)]
    /\ UNCHANGED engine_vars
    /\ UNCHANGED text_vars
    /\ UNCHANGED synth_vars
    /\ UNCHANGED call

NextSynth ==
    \/ GenerateTowerForLayer
    \/ SynchronizeTowers
    \/ InsertZhopForTravel
    \/ NeedsZhop

SpecSynth == InitSynth /\ [][NextSynth]_vars

-----------------------------------------------------------------------------
(* Claims about GCodeParser.parse_lines (SpecParse) *)

Parsed == out.stage = "parsed"

\* the positions of the layer markers in the file, and the first of them
MarkerAt == { i \in 1..Len(lines) : lines[i].kind = "marker" }
FirstMarker == IF MarkerAt = {} THEN Len(lines) + 1 ELSE SetMin(MarkerAt)

\* the lines of the k-th layer: from its marker to the line before the next
LayerStart(k) == CHOOSE m \in MarkerAt : Cardinality({ j \in MarkerAt : j <= m }) = k
LayerEnd(k) == IF k = Cardinality(MarkerAt) THEN Len(lines) ELSE LayerStart(k + 1) - 1

\* C11 (as claimed): the returned layers have strictly increasing layer_number.
C11_StrictlyIncreasingNumbers ==
    Parsed =>
        \A k \in 1..(Len(out.returned) - 1) :
            out.returned[k].layer_number < out.returned[k + 1].layer_number

\* C12: the returned layers have non-decreasing z_height in list order,
\* whatever the Z words of the commands do.
C12_ZNonDecreasing ==
    Parsed =>
        \A k \in 1..(Len(out.returned) - 1) :
            out.returned[k].z_height <= out.returned[k + 1].z_height

\* a Z move down to 0.2 mm in the second layer, after one up to 0.4 mm
C12_Witness ==
    /\ Parsed
    /\ Len(out.returned) >= 2
    /\ out.returned[1].z_height = 400
    /\ \E c \in 1..Len(out.returned[2].commands) : out.returned[2].commands[c].z = 200

\* the commands that raise Z above every Z seen before them
ZRaises ==
    { i \in 1..Len(lines) :
        /\ lines[i].kind = "cmd"
        /\ lines[i].z # None
        /\ lines[i].z > 0
        /\ \A j \in 1..(i - 1) :
              (lines[j].kind = "cmd" /\ lines[j].z # None) => lines[j].z < lines[i].z }

\* C13 (as claimed): without any layer marker, one layer is returned for
\* every command that raises Z above the highest Z seen so far.
C13_FallbackByZ ==
    (Parsed /\ MarkerAt = {}) => Len(out.returned) = Cardinality(ZRaises)

\* the tool-select commands: the lines after the header whose word is T0..T9
IsSelect(i) ==
    /\ i > FirstMarker
    /\ lines[i].kind = "cmd"
    /\ lines[i].command \in DOMAIN ToolNumber
    /\ ToolNumber[lines[i].command] \in 0..9

\* the tool selected by the last tool-select command up to line i
ActiveTool(i) ==
    LET S == { j \in 1..i : IsSelect(j) }
    IN  IF S = {} THEN None ELSE ToolNumber[lines[SetMax(S)].command]

IsT1000(i) ==
    i > FirstMarker /\ lines[i].kind = "cmd" /\ lines[i].command = "T1000"

IsCompletion(i) == lines[i].kind = "cmd" /\ lines[i].command = "M621"

\* line i of layer k lies between a tool select of the layer and the first
\* completion marker after it, both included
InSequence(k, i) ==
    \E j \in (LayerStart(k) + 1)..i :
        /\ IsSelect(j)
        /\ \A c \in j..(i - 1) : ~IsCompletion(c)

\* C15 (as claimed): a command is tagged is_tool_change_sequence exactly when
\* it lies between a tool select and the completion marker that follows it,
\* and the pending list holds exactly the tagged commands of the last layer.
C15_SequenceEndsAtCompletion ==
    Parsed =>
        /\ \A k \in 1..Len(out.returned) : \A c \in 1..Len(out.returned[k].commands) :
              LET cmd == out.returned[k].commands[c]
              IN  cmd.is_tool_change_sequence <=> InSequence(k, cmd.line_number + 1)
        /\ \A p \in 1..Len(parser.pending_tool_change_commands) :
              LET cmd == parser.pending_tool_change_commands[p]
              IN  InSequence(Len(out.returned), cmd.line_number + 1)

\* C16: header_lines holds exactly the lines before the first layer marker,
\* as read and in order, and no layer has one of them as a command.
C16_HeaderIsPreamble ==
    Parsed =>
        /\ parser.header_lines = SubSeq(lines, 1, FirstMarker - 1)
        /\ \A k \in 1..Len(out.returned) : \A c \in 1..Len(out.returned[k].commands) :
              out.returned[k].commands[c].line_number + 1 > FirstMarker

\* a blank line and a config comment before the first marker, a command after
C16_Witness ==
    /\ Parsed
    /\ \E i \in 1..(FirstMarker - 1) : lines[i].kind = "blank"
    /\ \E i \in 1..(FirstMarker - 1) : lines[i].kind = "config"
    /\ Len(out.returned) >= 1
    /\ out.returned[1].commands # <<>>

-----------------------------------------------------------------------------
(* Claims about ObjectSegmentParser._split_layer_by_tool_change (SpecParse) *)

\* the commands of the segments in segment order, a segment's tool-change
\* commands before its commands
RECURSIVE Flatten(_, _)
Flatten(segments, i) ==
    IF i > Len(segments) THEN <<>>
    ELSE segments[i].tool_change_commands \o segments[i].commands
         \o Flatten(segments, i + 1)

\* C18 (as claimed): when the split layer holds a tool select, the segments
\* hold each command of the layer exactly once and in the layer's order.
C18_SegmentsReconstructLayer ==
    query.op = "split" =>
        LET layer == out.returned[query.layer]
            own == { layer.commands[c] : c \in 1..Len(layer.commands) }
        IN  (\E c \in own : selects_tool(c)) =>
                SelectSeq(Flatten(query.segments, 1), LAMBDA c : c \in own)
                    = layer.commands

-----------------------------------------------------------------------------
(* Claims about batch_layers_final.py and batch_layers_v2.py (SpecBatch) *)

Batched == out.stage \in {"batched", "batched_v2"}

\* the objects main() parsed, as pairs <<layer, index>>
ObjectRefs ==
    { <<n, i>> \in (DOMAIN out.objects_by_layer) \X (1..MaxLines) :
        i <= Len(out.objects_by_layer[n]) }

\* the tool selected by the last line T0..T9 before line p, "T0" at the start
SelectedBefore(p) ==
    LET S == { j \in 1..(p - 1) :
                 /\ lines[j].kind = "cmd"
                 /\ lines[j].command \in DOMAIN ToolNumber
                 /\ ToolNumber[lines[j].command] \in 0..9 }
    IN  IF S = {} THEN "T0" ELSE lines[SetMax(S)].command

\* C17 (as claimed): every start marker after the preamble opens an object
\* with the marker's id and the tool of the last T0-T9 line before it.
C17_ObjectTaggedWithActiveTool ==
    Batched =>
        \A p \in (Len(out.preamble) + 1)..Len(lines) :
            lines[p].kind = "start" =>
                \E r \in ObjectRefs :
                    LET obj == out.objects_by_layer[r[1]][r[2]]
                    IN  /\ \E k \in 1..Len(obj.lines) : obj.lines[k].src = p
                        /\ obj.object_id = lines[p].id
                        /\ obj.tool = SelectedBefore(p)

\* the tool groups of the output, counted from 0: two to a batch, in the
\* order T0, T1 in the batches 0, 2, ... and T1, T0 in the batches 1, 3, ...
GreatestLayer == SetMax(DOMAIN out.objects_by_layer)
NumBatches ==
    CHOOSE q \in 1..GreatestLayer :
        q * out.batch_size >= GreatestLayer /\ (q - 1) * out.batch_size < GreatestLayer
GroupTool(g) == IF (g \div 2) % 2 = g % 2 THEN "T0" ELSE "T1"

\* the synthesized lines of the output, and the places where a block starts
Synthesized == SelectSeq(out.body_lines, LAMBDA l : l.src = 0)
BlockStarts ==
    { i \in 1..Len(out.body_lines) :
        /\ out.body_lines[i].src = 0
        /\ out.body_lines[i].text.kind = "comment"
        /\ out.body_lines[i].text.text = "Tool change" }

\* the blocks the claim asks for: one for each group whose tool differs from
\* that of the group before it, selecting the group's tool
ExpectedBlocks ==
    ConcatAll([g \in 1..(2 * NumBatches - 1) |->
                  IF GroupTool(g) = GroupTool(g - 1) THEN <<>>
                  ELSE IF out.stage = "batched_v2"
                  THEN generate_tool_change_v2(GroupTool(g - 1), GroupTool(g))
                  ELSE generate_tool_change(GroupTool(g - 1), GroupTool(g))], 1)

\* the tool selected by the last synthesized tool select before place i of
\* the output, "T0" when there is none
SelectedInBody(i) ==
    LET S == { j \in 1..(i - 1) :
                 /\ out.body_lines[j].src = 0
                 /\ out.body_lines[j].text.kind = "cmd"
                 /\ out.body_lines[j].text.command \in {"T0", "T1"} }
    IN  IF S = {} THEN "T0" ELSE out.body_lines[SetMax(S)].text.command

\* the blocks are the expected ones, every object line is printed under the
\* tool of its object, and there are ceil(M / s) blocks
BlocksAsClaimed ==
    /\ Synthesized = ExpectedBlocks
    /\ \A i \in 1..Len(out.body_lines) :
          out.body_lines[i].src > 0 =>
              \E r \in ObjectRefs :
                  LET obj == out.objects_by_layer[r[1]][r[2]]
                  IN  /\ \E k \in 1..Len(obj.lines) : obj.lines[k] = out.body_lines[i]
                      /\ obj.tool = SelectedInBody(i)
    /\ Cardinality(BlockStarts) = NumBatches

-----------------------------------------------------------------------------
(* Claims about batch_layers.py (SpecStrip) *)

Updated == out.stage = "updated"

\* the places in the file of the lines of the tool-change blocks of parsed
\* layer i: from an open marker M620 through the first close marker M621
\* that follows it in the layer
BlockLines(i) ==
    LET ll == out.parsed[i].lines
        mark(k, c) == ll[k].text.kind = "cmd" /\ ll[k].text.command = c
    IN  { ll[k].src : k \in { k \in 1..Len(ll) :
            \E o \in 1..k : \E c \in k..Len(ll) :
                /\ mark(o, "M620")
                /\ mark(c, "M621")
                /\ \A j \in o..(c - 1) : ~mark(j, "M621") } }

\* C20 (as claimed): when the next layer uses the same tool, no line of a
\* tool-change block of the layer is among the layer's output lines.
C20_SameToolBlockStripped ==
    Updated =>
        \A i \in 1..(Len(out.parsed) - 1) :
            out.parsed[i].tool = out.parsed[i + 1].tool =>
                \A k \in 1..Len(out.layers[i].lines) :
                    out.layers[i].lines[k].src \notin BlockLines(i)

-----------------------------------------------------------------------------
(* Lookups of the geometry index, checked under SpecCollision *)

\* the geometry index has no entry for the layer's number
NoEntry(layer) == layer.layer_number \notin DOMAIN layer_geometry

\* C27: _check_layer_collision returns false whenever the printing layer or
\* the existing layer has no entry in the geometry index, and can_batch_layers
\* returns true when every test it makes meets a missing entry: a missing
\* entry never refuses a batch.
C27_FailOpenLookup ==
    /\ query.op = "check_layer_collision" =>
         (NoEntry(layers[query.p]) \/ NoEntry(layers[query.e])
            => query.result = FALSE)
    /\ query.op = "can_batch_layers" =>
         LET A == layers[query.a]
             B == layers[query.b]
         IN  (\A i \in Positions :
                 StrictlyBetween(A, layers[i], B) =>
                     NoEntry(B) \/ NoEntry(layers[i]))
               => query.result = TRUE

\* C27 witness: the printing layer is in the index, the existing layer was
\* appended after the index was built and extrudes within the radius of the
\* printing layer's cells, and the call returned false
C27_Witness ==
    /\ query.op = "check_layer_collision"
    /\ query.result = FALSE
    /\ ~NoEntry(layers[query.p])
    /\ NoEntry(layers[query.e])
    /\ \E p \in layer_geometry[layers[query.p].layer_number] :
         \E q \in layer_voxels(layers[query.e]) :
            EuclidWithin(p, q, query.r)

-----------------------------------------------------------------------------
(* The check radius of can_batch_layers, checked under SpecCollision *)

\* |a - b|
AbsDiff(a, b) == IF a >= b THEN a - b ELSE b - a

\* the nozzle radius at the Z gap between B and L plus the safety margin
GapRadius(B, L) ==
    get_radius_at_height(AbsDiff(B.z_height, L.z_height)) + safety_margin

\* C29 (as claimed): can_batch_layers(A, B, all_layers) tests B against each
\* intermediate layer L at the radius of the Z gap between B and L plus the
\* safety margin, so it refuses exactly when some intermediate layer collides
\* with B at that layer's own radius.
C29_RadiusPerIntermediateLayer ==
    query.op = "can_batch_layers" =>
        LET A == layers[query.a]
            B == layers[query.b]
        IN  (query.result = FALSE) <=>
              \E i \in Positions :
                /\ StrictlyBetween(A, layers[i], B)
                /\ check_layer_collision(B, layers[i], GapRadius(B, layers[i]))

-----------------------------------------------------------------------------
(* Claims about build_geometry_map (SpecMap) *)

\* the position after move cmd from position pos: an axis the move does not
\* address keeps its value
MoveTo(pos, cmd) ==
    << IF cmd.x # None THEN cmd.x ELSE pos[1],
       IF cmd.y # None THEN cmd.y ELSE pos[2] >>

\* the position after the first i moves of cmds, started from pos
RECURSIVE PositionAfter(_, _, _)
PositionAfter(cmds, i, pos) ==
    IF i = 0 THEN pos
    ELSE MoveTo(PositionAfter(cmds, i - 1, pos), cmds[i])

\* the position at which layer k of ls starts; unknown axes are None
RECURSIVE StartOf(_, _)
StartOf(ls, k) ==
    IF k = 1 THEN <<None, None>>
    ELSE PositionAfter(ls[k - 1].commands, Len(ls[k - 1].commands),
                       StartOf(ls, k - 1))

\* the endpoint of move i of layer k
Endpoint(ls, k, i) == PositionAfter(ls[k].commands, i, StartOf(ls, k))

\* the cells of the endpoints of the moves of layer k with positive extrusion
\* and a known endpoint
ExtrudedCells(ls, k) ==
    { position_to_voxel(Endpoint(ls, k, i)[1], Endpoint(ls, k, i)[2]) :
        i \in { j \in 1..Len(ls[k].commands) :
                  /\ ls[k].commands[j].e # None
                  /\ ls[k].commands[j].e > 0
                  /\ Endpoint(ls, k, j)[1] # None
                  /\ Endpoint(ls, k, j)[2] # None } }

\* C30 (as claimed): after build_geometry_map(layers) the cell set of each layer
\* holds the endpoint cell of every move of the layer with positive extrusion,
\* moves that address only one of X and Y included (the other axis is the
\* current position's), and no cell of a travel or a retraction.
C30_CellsOfExtrudingMoves ==
    layer_geometry # <<>> =>
        \A k \in 1..Len(layers) :
            layer_geometry[layers[k].layer_number] = ExtrudedCells(layers, k)

-----------------------------------------------------------------------------
(* The partition property of batch_layers_final.py (SpecBatch) *)

\* line p of the file lies in a tool-change sequence: it is not a layer
\* marker, and a T0 or T1 line at or before it is not yet closed by an M621
InToolChangeSequence(p) ==
    /\ lines[p].kind # "marker"
    /\ \E q \in (preamble_end(lines) + 1)..p :
         /\ is_tool_line(lines[q])
         /\ \A j \in q..(p - 1) :
              ~(lines[j].kind = "cmd" /\ lines[j].command = "M621")

\* the number of lines of the written body taken from line p of the file
Copies(p) ==
    Cardinality({ i \in 1..Len(out.body_lines) : out.body_lines[i].src = p })

\* C24 (as claimed): main() of batch_layers_final.py writes the preamble
\* first, and every line of the file after the preamble that is not part of a
\* tool-change sequence (layer marker, line between objects, line inside an
\* object) appears exactly once in the written body.
C24_OriginalLinesPartitioned ==
    out.stage = "batched" =>
        /\ out.preamble = SubSeq(lines, 1, preamble_end(lines))
        /\ \A p \in (preamble_end(lines) + 1)..Len(lines) :
              ~InToolChangeSequence(p) => Copies(p) = 1

-----------------------------------------------------------------------------
(* The frame of update_tool_changes (SpecStrip) *)

\* C28 (as claimed): update_tool_changes leaves the parsed layers it is given
\* unchanged: after the call every input layer holds the same lines as before
\* it. (The other half of the claim, create_batches, changes no layer: the
\* action CreateBatches leaves layers unchanged.)
C28_ParsedLayersUnchanged ==
    out.stage = "updated" =>
        \A i \in 1..Len(out.parsed) : out.layers[i].lines = out.parsed[i].lines

-----------------------------------------------------------------------------
(* Lines the parser cannot read as a command (SpecParse) *)

\* the text of the line is kept in the command, as raw_line or as comment
KeepsText(cmd, line) == cmd.raw_line = strip(line) \/ cmd.comment = <<strip(line)>>

\* C26 (as claimed): every non-blank line after the first layer marker that is
\* not itself a marker is a command of the layer open at it; a line without a
\* command word (a comment-only line) gives a command with an empty command
\* word and no numeric fields that keeps the text of the line.
C26_UnparsableLineKept ==
    Parsed =>
        \A i \in (FirstMarker + 1)..Len(lines) :
            lines[i].kind \notin {"blank", "marker"} =>
                LET k == Cardinality({ j \in MarkerAt : j < i })
                IN  \E c \in 1..Len(out.returned[k].commands) :
                        LET cmd == out.returned[k].commands[c]
                        IN  /\ cmd.line_number = i - 1
                            /\ lines[i].kind # "cmd" =>
                                 /\ cmd.command = ""
                                 /\ cmd.x = None /\ cmd.y = None
                                 /\ cmd.z = None /\ cmd.e = None
                                 /\ KeepsText(cmd, lines[i])

-----------------------------------------------------------------------------
(* Claims about the Z-hop and prime-tower synthesizers (SpecSynth) *)

\* insert_zhop_for_travel was asked with Z-hop enabled for a travel downwards
HopAsked ==
    /\ query.op = "insert_zhop_for_travel"
    /\ query.enabled
    /\ query.to_z < query.from_z

\* a move of Z only, to height z
ZOnlyTo(cmd, z) ==
    /\ cmd.command = "G1"
    /\ cmd.x = None /\ cmd.y = None /\ cmd.e = None
    /\ cmd.z = z

\* the positions of the travel's commands that move in X or Y
XYMoves(commands) ==
    { i \in 1..Len(commands) :
        /\ commands[i].command \in {"G0", "G1"}
        /\ (commands[i].x # None \/ commands[i].y # None) }

\* the k-th smallest element of the set S of numbers
Nth(S, k) == CHOOSE i \in S : Cardinality({ j \in S : j <= i }) = k

\* C22: with Z-hop enabled and to_z < from_z the returned commands are, in
\* this order, a Z-only move up to from_z + zhop_height, the X/Y moves of the
\* travel in their order with their X and Y, without Z and without
\* extrusion, and a Z-only move down to to_z; no returned command has an X or
\* Y together with a Z.  (The fields of the commands are meant; their text
\* is the subject of C25.)
C22_HopUpTravelHopDown ==
    HopAsked =>
        LET r == query.result
            moves == XYMoves(query.commands)
        IN  /\ Len(r) = Cardinality(moves) + 2
            /\ ZOnlyTo(r[1], query.from_z + zhop_height)
            /\ ZOnlyTo(r[Len(r)], query.to_z)
            /\ \A k \in 1..Cardinality(moves) :
                 /\ r[k + 1].command = query.commands[Nth(moves, k)].command
                 /\ r[k + 1].x = query.commands[Nth(moves, k)].x
                 /\ r[k + 1].y = query.commands[Nth(moves, k)].y
                 /\ r[k + 1].z = None
                 /\ r[k + 1].e = None
            /\ \A i \in 1..Len(r) :
                 ~((r[i].x # None \/ r[i].y # None) /\ r[i].z # None)

\* C22 witness: a travel of a Z-only move and a move that has X, Z and E was
\* wrapped: three commands are returned, the middle one has the X only
C22_Witness ==
    /\ HopAsked
    /\ Len(query.commands) = 2
    /\ query.commands[1].x = None /\ query.commands[1].z # None
    /\ query.commands[2].x # None /\ query.commands[2].z # None
    /\ query.commands[2].e # None
    /\ Len(query.result) = 3
    /\ query.result[2].x = query.commands[2].x

\* C23 (as claimed): in the scenario that prints layer 8 right after layer 3,
\* needs_zhop(3, 8) is true, and insert_zhop_for_travel with from_z the Z of
\* layer 3 and to_z the Z of layer 8 returns the travel wrapped in a hop up
\* and a hop down, not the travel as it was.
C23_ScenarioHopInserted ==
    /\ (query.op = "needs_zhop" /\ query.from_layer = 3 /\ query.to_layer = 8)
          => query.result = TRUE
    /\ (/\ query.op = "insert_zhop_for_travel"
        /\ query.enabled
        /\ query.from_z = 3 * layer_height
        /\ query.to_z = 8 * layer_height)
          => /\ Len(query.result) >= 2
             /\ ZOnlyTo(query.result[1], query.from_z + zhop_height)
             /\ ZOnlyTo(query.result[Len(query.result)], query.to_z)

\* synchronize_towers was called on a manager with prime towers enabled
Synchronized == query.op = "synchronize_towers" /\ manager.enabled

\* the towers that were behind at the call, and how many layers
BehindTools ==
    { t \in DOMAIN query.before :
        t # query.current_tool /\ query.current_layer - query.before[t] > 0 }
LayersBehind(t) == query.current_layer - query.before[t]

\* the positions of the returned switches to tool t
SwitchesTo(t) ==
    { i \in 1..Len(query.result) : query.result[i].command = tool_word(t) }

\* the Z at which returned command i prints: the Z of the last Z word at or
\* before it, the z_height of the call when there is none
RECURSIVE NozzleZ(_)
NozzleZ(i) ==
    IF i = 0 THEN query.z_height
    ELSE IF query.result[i].z # None THEN query.result[i].z
    ELSE NozzleZ(i - 1)

\* C21 (as claimed): for each other tool whose tower is n > 0 layers behind,
\* synchronize_towers returns exactly n tower layers (a switch to the tool,
\* the five perimeter commands of its tower, a retract), and the perimeter
\* commands of the k-th of them print at z - (n - k) * layer_height.
C21_TowerLayersAtOwnZ ==
    Synchronized =>
        \A t \in BehindTools :
            LET n == LayersBehind(t)
                S == SwitchesTo(t)
            IN  /\ Cardinality(S) = n
                /\ \A k \in 1..n : \A j \in 1..5 :
                     LET i == Nth(S, k) + j
                     IN  /\ i <= Len(query.result)
                         /\ query.result[i].command = "G1"
                         /\ query.result[i].x # None
                         /\ NozzleZ(i) = query.z_height - (n - k) * layer_height

\* the commands of the last call that were synthesized: all that a tower call
\* returns and all that a wrapped travel consists of
SynthesizedCommands ==
    IF query.op \in {"synchronize_towers", "generate_tower_for_layer"} \/ HopAsked
    THEN { query.result[i] : i \in 1..Len(query.result) }
    ELSE {}

\* the value of a field at the precision it is printed with
Printed(v, digits) ==
    IF v = None THEN None
    ELSE IF digits = 3 THEN format_3f(v)
    ELSE IF digits = 4 THEN format_4f(v)
    ELSE v

\* C25 (as claimed): parsing the raw_line of a synthesized command with
\* _parse_command gives the command's own command word, the same X, Y, Z, E
\* and F words present, and the values of its fields at the printed
\* precision; so a travel command of a Z-hop has no Z in its text and has the
\* travel feedrate there.
C25_RawLineRoundTrip ==
    \A cmd \in SynthesizedCommands :
        LET again == _parse_command(cmd.line_number, cmd.raw_line)
        IN  /\ again.command = cmd.command
            /\ again.x = Printed(cmd.x, 3)
            /\ again.y = Printed(cmd.y, 3)
            /\ again.z = Printed(cmd.z, 3)
            /\ again.e = Printed(cmd.e, 4)
            /\ again.f = Printed(cmd.f, 0)

\* C32 (as claimed): after synchronize_towers(current_tool, L, z) on a manager
\* with prime towers enabled, every other tower that was behind has
\* current_layer exactly L, however many layers it was behind.
C32_TowersCaughtUpExactly ==
    Synchronized =>
        \A t \in BehindTools : manager.towers[t] = query.current_layer

\* C38 (as claimed): with prime towers disabled, synchronize_towers returns no
\* command at all, whatever the tool, the layer and the towers.
C38_DisabledSynthesizesNothing ==
    (query.op = "synchronize_towers" /\ ~manager.enabled) => query.result = <<>>

\* the tool active at line i, 0 when no tool was selected yet
ActiveOrZero(i) == IF ActiveTool(i) = None THEN 0 ELSE ActiveTool(i)

\* C31 (as claimed): every segment of a split layer carries the tool that was
\* active at each of its moves, the most recent T0-T9 selection up to the
\* move; so do the segments of a layer that has no tool select and no
\* tool-change block before it.
C31_SegmentCarriesActiveTool ==
    query.op = "split" =>
        \A s \in 1..Len(query.segments) :
            \A c \in 1..Len(query.segments[s].commands) :
                LET cmd == query.segments[s].commands[c]
                IN  cmd.command = "G1" =>
                        query.segments[s].tool = ActiveOrZero(cmd.line_number + 1)

\* the lines of layer k that move the nozzle
MotionLines(k) ==
    { i \in (LayerStart(k) + 1)..LayerEnd(k) :
        lines[i].kind = "cmd" /\ lines[i].command = "G1" }

\* C33 (as claimed): the tool of a returned layer is the tool that was active
\* at the layer's last motion command; a tool select after that command, which
\* prepares the next layer, does not change it.
C33_LayerToolIsPrintingTool ==
    Parsed =>
        \A k \in 1..Len(out.returned) :
            MotionLines(k) # {} =>
                out.returned[k].tool = ActiveOrZero(SetMax(MotionLines(k)))

\* C34 (as claimed): a second parse_lines call on the same parser with the
\* same lines returns the layers the first call returned and leaves the
\* header_lines the first call left.
C34_ParseRestartable ==
    out.stage = "parsed_again" =>
        /\ out.returned = out.first.layers
        /\ parser.header_lines = out.first.header_lines

\* C36 (as claimed): when a batch of the returned schedule starts, every input
\* layer with a lower layer number than the batch's first layer is a member
\* of an earlier batch; so the first batch begins with the first input layer.
C36_LowerLayersScheduledFirst ==
    Returned =>
        \A b \in BatchIds : \A p \in Positions :
            layers[p].layer_number < batches[b].start_layer =>
                \E a \in 1..(b - 1) : \E k \in 1..Len(Members(a)) : Members(a)[k] = p

-----------------------------------------------------------------------------
(* Claims about a create_batches call followed turn by turn (SpecRun) *)

\* C35 (as claimed): every turn of the interleaved loop advances idx_0 or
\* idx_1, for max_batch_layers 0 as well; so the loop has never made more
\* turns than it has batched layers, and it ends after at most len(layers)
\* turns.
C35_EveryTurnAdvances ==
    call.pc = "while" => call.turns <= call.idx_0 + call.idx_1

\* C37 (as claimed): the list a create_batches call returned keeps the
\* schedule it held at the return, whatever the batcher schedules later.
\* Every call returns self.batches itself, so each result is read in batches.
C37_EarlierResultKept ==
    call.pc # "while" => \A i \in 1..Len(returned) : batches = returned[i]

-----------------------------------------------------------------------------
(* Unterminated tool changes in batch_layers_final.py (SpecBatch) *)

\* a T0 or T1 line after the preamble and before line p that no close marker
\* M621 follows anywhere in the file
UnterminatedChangeBefore(p) ==
    \E t \in (preamble_end(lines) + 1)..(p - 1) :
        /\ is_tool_line(lines[t])
        /\ \A c \in t..Len(lines) :
              ~(lines[c].kind = "cmd" /\ lines[c].command = "M621")

\* C40 (as claimed): a start marker that comes after an unterminated tool
\* change still opens an object, and the lines up to the object's stop marker
\* are collected in it.
C40_RecoversFromUnterminatedChange ==
    out.stage = "batched" =>
        \A p \in (preamble_end(lines) + 1)..Len(lines) :
            (lines[p].kind = "start" /\ UnterminatedChangeBefore(p)) =>
                \E r \in ObjectRefs :
                    LET obj == out.objects_by_layer[r[1]][r[2]]
                    IN  /\ obj.lines[1].src = p
                        /\ \A q \in (p + 1)..Len(lines) :
                              (\A j \in (p + 1)..q : lines[j].kind \notin {"stop", "marker"})
                                  => \E k \in 1..Len(obj.lines) : obj.lines[k].src = q

-----------------------------------------------------------------------------
(* The tool that prints a line, before and after update_tool_changes        *)
(* (SpecTools)                                                              *)

\* the layers' lines as main() writes them after the preamble
WrittenBody == ConcatAll([i \in 1..Len(out.layers) |-> out.layers[i].lines], 1)

\* the tool selected by the last T line of the file before line p; the
\* script takes T0 as selected when there is none
InputToolBefore(p) ==
    LET S == { j \in 1..(p - 1) : is_tool_line(lines[j]) }
    IN  IF S = {} THEN "T0" ELSE lines[SetMax(S)].command

\* the tool selected by the last T line written before line k of the body;
\* the preamble is written first and as it was read
OutputToolBefore(k) ==
    LET S == { j \in 1..(k - 1) : is_tool_line(WrittenBody[j].text) }
    IN  IF S = {} THEN InputToolBefore(Len(out.preamble) + 1)
        ELSE WrittenBody[SetMax(S)].text.command

\* C39 (as claimed): every line of the output that is not a tool select is
\* printed by the tool that printed it in the input: the last T line before
\* it selects the same tool in both, in layers with several tool changes too.
C39_PrintingToolKept ==
    Updated =>
        \A k \in 1..Len(WrittenBody) :
            ~is_tool_line(WrittenBody[k].text) =>
                OutputToolBefore(k) = InputToolBefore(WrittenBody[k].src)

====
